---------------------------- MODULE Spec2Model ----------------------------
(***************************************************************************)
(* Front panel firmware of the USB-PD sink (pd-sink-stm32-rs): the two     *)
(* button classifiers and their poll (button.rs, main.rs btns_exec), the   *)
(* gesture coordinator and the page/settings state machine                 *)
(* (controller.rs), and the shared settings and topics (shared.rs).        *)
(*                                                                         *)
(* Time is the embassy Instant in milliseconds.  Instant::MIN is tick 0.   *)
(* The classifiers are created after the display was initialised, which    *)
(* takes BootTime ms of settle delays, so every reading of the clock by a  *)
(* classifier is at least BootTime.  Thresholds are f64 multiples of 0.25  *)
(* and are kept as a number of quarters (exact in binary floating point).  *)
(***************************************************************************)
EXTENDS Integers, Sequences, FiniteSets, TLC

\* ------------------------------------------------------------ bounds
\* Granularity of the model clock in ms, and the number of clock steps.
TimeStep == 50
MaxSteps == 8
\* Edges (presses and releases) of one button in a run.  A bounce is a press
\* and a release within the same clock step.
MaxEdges == 4
\* Number of gestures fed directly to handle_input in the gesture-level
\* specifications.
MaxGestures == 5
MaxAdjust == 42
MaxEdgesTogether == 6
MaxStepsTogether == 10

\* ------------------------------------------------ program constants
MIN_PRESS_DURATION == 50
SHORT_PRESS_DURATION == 200
DOUBLE_CLICK_TIMEOUT == 300
MAX_SIMULTANEOUS_PRESS_DELAY == 100
\* Ticker::every(Duration::from_millis(100)) of btns_exec
TICK_PERIOD == 100
\* capacity of a button's Channel<_, ButtonState, 10>
CHANNEL_CAP == 10
\* capacity of every PubSubChannel<_, _, 2, 2, 1>
PUBSUB_CAP == 2
\* Instant::MIN
InstantMIN == 0
\* the thresholds are counted in steps of 0.25
Quarters == 4
OCP_MAX == 10 * Quarters
\* initial value of BACKLIGHT_MUTEX
BACKLIGHT_INIT == 255
\* settle delays of ST7789::reset and ST7789::init that precede the spawn
\* of btns_exec: 10 + 10 (reset), 200 (SWRESET), 200 (SLPOUT), 200 (DISPON)
BootTime == 10 + 10 + 200 + 200 + 200

Buttons == {"A", "B"}
Other(b) == IF b = "A" THEN "B" ELSE "A"

\* ------------------------------------------------------- ButtonState
Released == [k |-> "Released", t |-> 0]
Pressed == [k |-> "Pressed", t |-> 0]
Click(t) == [k |-> "Click", t |-> t]
LongPressed(t) == [k |-> "LongPressed", t |-> t]
DoubleClick(t) == [k |-> "DoubleClick", t |-> t]
\* "nothing sent" as the result of a classifier operation
NoEvent == [k |-> "none", t |-> 0]

\* ------------------------------------------------------------- types
BtnsState == {"Up", "Down", "UpLong", "DownLong", "UpDbk", "DownDbk",
              "UpAndDown", "UpAndDownLong"}
NoGesture == "none"
\* The mutexes (shared.rs), by what they guard.
Mutexes == {"page", "backlight", "direction", "output", "selected_voltage",
            "uvp", "ocp", "pdo", "available", "display"}
SETTING_ITEMS == <<"Voltage", "UVP", "OCP", "About">>
VOLTAGE_ITEMS == <<"_5v", "_9v", "_12v", "_15v", "_18v", "_20v">>
PageMonitor == [p |-> "Monitor", a |-> ""]
PageSetting(item) == [p |-> "Setting", a |-> item]
PageVoltage(pdo) == [p |-> "Voltage", a |-> pdo]
PageUVP == [p |-> "UVP", a |-> ""]
PageOCP == [p |-> "OCP", a |-> ""]
PageAbout == [p |-> "About", a |-> ""]

Range(s) == {s[i] : i \in 1..Len(s)}
\* 1-based position of x in s, 0 when absent (Iterator::position)
Position(s, x) ==
    IF x \in Range(s) THEN CHOOSE i \in 1..Len(s) :
                              s[i] = x /\ \A j \in 1..(i - 1) : s[j] # x
    ELSE 0

VARIABLES
    now,                \* Instant::now(), ms
    pin,                \* pin[b]: TRUE while button b is physically down
    last_press_time,    \* Button.last_press_time, per button
    last_release_time,  \* Button.last_release_time, per button
    tickerDue,          \* when the Ticker of the current btns_exec wait fires
    edges,              \* edges of button b so far
    chan,               \* BTN_A_STATE_CHANNEL, BTN_B_STATE_CHANNEL
    btn_up_state,       \* locals of Controller::task
    btn_down_state,
    up_last,
    direction,          \* Controller.direction
    page,               \* PAGE_MUTEX
    backlight,          \* BACKLIGHT_MUTEX
    display_direction,  \* DISPLAY_DIRECTION_MUTEX
    ocp,                \* OCP_MUTEX, quarters
    uvp,                \* UVP_MUTEX, quarters
    pdo,                \* PDO_MUTEX
    output,             \* OUTPUT_MUTEX
    selected_voltage,   \* SELECTED_VOLTAGE_MUTEX
    available,          \* AVAILABLE_VOLT_CURR_MUTEX: voltages whose current is Some
    topics,             \* the PubSubChannel queues, by setting name
    unread,             \* per subscriber, the messages it has not read yet
    missed,             \* observer: the subscribers that lost a message unread
    pubHeld,            \* observer: per topic, the locks the coordinator held
                        \* at its latest publish
    panicked,           \* the firmware hit a panic (index out of bounds)
    pressAt,            \* observer: time of the latest on_press of b, 0 = none
    longCount,          \* observer: LongPressed sent since the latest on_press
    prevRel,            \* observer: the latest on_release of b
    qualRel,            \* observer: the latest release of b that sent Click or
                        \* DoubleClick
    longDisp,           \* observer: what the latest LongPressed of b led to
    clickDisp,          \* observer: what the latest Click of b led to
    lastRecv,           \* observer: the latest event the coordinator took
    inflight,           \* observer: per queue, the events sent and not yet
                        \* taken by the coordinator, oldest first
    delivery_ok,        \* observer: every event taken so far was the oldest
                        \* one in flight
    disp_page,          \* Display.page
    disp_direction,     \* Display.direction
    disp_output,        \* Display.output
    loop_pc,            \* where main's loop stands in its iteration
    ctrl_pin,           \* OutputController.ctrl_pin: the actuator is on
    amps_sample,        \* observer: the latest current sample and the
                        \* threshold it was compared with
    power_info,         \* Display.power_info, thousandths
    blits,              \* the write_area calls of the latest render_monitor
    panel,              \* the panel: per primary field, the glyph in each column
    lastRender,         \* observer: the arguments of the latest render_monitor
    sincePress,         \* observer: per button, the kinds sent from the latest
                        \* Pressed on
    bus,                \* the SPI writes of the latest driver call, in order
    drv_result,         \* what the latest driver call returned
    drv_call,           \* observer: the latest driver call and its arguments
    dc_pin,             \* the level of the driver's D/C pin
    drv_orientation,    \* ST7789.config.orientation
    owner,              \* per mutex, the task that holds its guard
    ctl_pc,             \* where handle_input stands: idle, page, setting, update
    ctl_job,            \* the gesture handle_input was called with
    main_pc,            \* main's loop: top (no guard), run (DISPLAY held),
                        \* or the step whose layout holds the capability table
    nGestures,          \* gestures fed directly (gesture-level specifications)
    lastInput,          \* observer: the latest gesture fed directly
    trail,              \* observer: the gestures fed one after the other
                        \* where they are followed (Track), with their pages
    status_info,        \* Display.status_info: the secondary fields shown
    disp_force_render,  \* Display.force_render
    ops,                \* observer: the bus operations of the latest
                        \* renderer call, where they are followed
    lastTick            \* observer: the messages the latest Display::task took
                        \* and the page it started on

btnVars == <<now, pin, last_press_time, last_release_time, tickerDue, edges>>
ctlVars == <<btn_up_state, btn_down_state, up_last>>
setVars == <<direction, page, backlight, display_direction, ocp, uvp, pdo,
             output, topics, unread, missed, pubHeld, panicked>>
envVars == <<selected_voltage, available>>
obsBtn == <<pressAt, longCount, prevRel, qualRel, sincePress>>
obsCtl == <<longDisp, clickDisp, lastRecv, inflight, delivery_ok>>
\* Display (display.rs), as main's loop drives it.
rndVars == <<status_info, disp_force_render, ops, lastTick>>
loopVars == <<disp_page, disp_direction, disp_output, power_info, blits,
              panel, lastRender, loop_pc, ctrl_pin, amps_sample, rndVars>>
loopVarsButPc == <<disp_page, disp_direction, disp_output, power_info, blits,
                   panel, lastRender, ctrl_pin, amps_sample>>
\* The ST7789 driver (st7789/src/lib.rs) and its bus.
drvVars == <<bus, drv_result, drv_call, dc_pin, drv_orientation>>
\* The mutexes of shared.rs and where the two tasks that lock them stand.
lockVars == <<owner, ctl_pc, ctl_job, main_pc>>
vars == <<btnVars, chan, ctlVars, setVars, envVars, loopVars, drvVars, lockVars, obsBtn,
          obsCtl, nGestures, lastInput, trail>>


\* ===================================================== Button (button.rs)
\* The three operations of a classifier as functions of its two fields and
\* the clock: what is sent (emit) and the fields afterwards (lp, lr).

on_press_result(lp, lr, t) ==
    [emit |-> Pressed, lp |-> t, lr |-> lr]

\* on_release without the debounce test: a short press counts as a click.
on_release_no_debounce(lp, lr, t) ==
    IF lp = InstantMIN
        THEN [emit |-> Released, lp |-> lp, lr |-> InstantMIN]
    ELSE IF t - lr < DOUBLE_CLICK_TIMEOUT
        THEN [emit |-> DoubleClick(t), lp |-> InstantMIN, lr |-> t]
    ELSE [emit |-> Click(t), lp |-> InstantMIN, lr |-> t]

\* on_release measuring the double-click window from the press, not from
\* the previous release.
on_release_window_from_press(lp, lr, t) ==
    IF lp = InstantMIN
        THEN [emit |-> Released, lp |-> lp, lr |-> InstantMIN]
    ELSE IF t - lp < MIN_PRESS_DURATION
        THEN [emit |-> Released, lp |-> lp, lr |-> lr]
    ELSE IF t - lp < DOUBLE_CLICK_TIMEOUT
        THEN [emit |-> DoubleClick(t), lp |-> InstantMIN, lr |-> t]
    ELSE [emit |-> Click(t), lp |-> InstantMIN, lr |-> t]

on_release_result(lp, lr, t) ==
    IF lp = InstantMIN
        THEN [emit |-> Released, lp |-> lp, lr |-> InstantMIN]
    ELSE IF t - lp < MIN_PRESS_DURATION
        THEN [emit |-> Released, lp |-> lp, lr |-> lr]
    ELSE IF t - lr < DOUBLE_CLICK_TIMEOUT
        THEN [emit |-> DoubleClick(t), lp |-> InstantMIN, lr |-> t]
    ELSE [emit |-> Click(t), lp |-> InstantMIN, lr |-> t]

\* update that leaves the press time in place after a long press.
update_keeps_press(lp, lr, t) ==
    IF lp = InstantMIN
        THEN [emit |-> NoEvent, lp |-> lp, lr |-> lr]
    ELSE IF t - lp > SHORT_PRESS_DURATION
        THEN [emit |-> LongPressed(t), lp |-> lp, lr |-> InstantMIN]
    ELSE [emit |-> NoEvent, lp |-> lp, lr |-> lr]

\* update that leaves the release time in place after a long press.
update_keeps_release(lp, lr, t) ==
    IF lp = InstantMIN
        THEN [emit |-> NoEvent, lp |-> lp, lr |-> lr]
    ELSE IF t - lp > SHORT_PRESS_DURATION
        THEN [emit |-> LongPressed(t), lp |-> InstantMIN, lr |-> lr]
    ELSE [emit |-> NoEvent, lp |-> lp, lr |-> lr]

update_result(lp, lr, t) ==
    IF lp = InstantMIN
        THEN [emit |-> NoEvent, lp |-> lp, lr |-> lr]
    ELSE IF t - lp > SHORT_PRESS_DURATION
        THEN [emit |-> LongPressed(t), lp |-> InstantMIN, lr |-> InstantMIN]
    ELSE [emit |-> NoEvent, lp |-> lp, lr |-> lr]

\* Channel::send: appends; the sender waits while the channel is full.
CanSendAlways(q) == TRUE
CanSend(q) == Len(q) < CHANNEL_CAP
Send(q, e) == IF e = NoEvent THEN q ELSE Append(q, e)

\* ------------------------------------------------ observers (classifier)
\* The events in flight after e is sent.
InFlight(h, e) == IF e = NoEvent THEN h ELSE Append(h, e)

\* The kinds sent to a queue from the latest Pressed on, after e is sent.
Sent(h, e) ==
    IF e = NoEvent THEN h
    ELSE IF e = Pressed THEN <<e.k>> ELSE Append(h, e.k)

NoRel == [at |-> 0, kind |-> "none", emit |-> "none", prevEmit |-> "none",
          lrKept |-> TRUE, long |-> FALSE, pair |-> "none", within |-> FALSE]

\* What the on_release of button b at time `now` is, given what it did (r).
\*   prevEmit: what the previous release of the button sent
\*   kind:   spurious (no on_press before), bounce (press < 50 ms), qual
\*   long:   a LongPressed was sent for the press this release ends
\*   pair:   "orig" when this and the previous release both end presses of
\*           at least 50 ms; "ok" when moreover no LongPressed was sent for
\*           either press
\*   within: this release is less than 300 ms after the previous one
ReleaseRecord(b, r) ==
    LET kind == IF pressAt[b] = 0 THEN "spurious"
                ELSE IF now - pressAt[b] < MIN_PRESS_DURATION THEN "bounce"
                ELSE "qual"
        long == pressAt[b] # 0 /\ longCount[b] > 0
        both == kind = "qual" /\ prevRel[b].kind = "qual"
    IN  [at |-> now, kind |-> kind, emit |-> r.emit.k,
         prevEmit |-> prevRel[b].emit,
         lrKept |-> (r.lr = last_release_time[b]),
         long |-> long,
         pair |-> IF ~both THEN "none"
                  ELSE IF long \/ prevRel[b].long THEN "orig" ELSE "ok",
         within |-> (both /\ now - prevRel[b].at < DOUBLE_CLICK_TIMEOUT)]

\* The latest release of a button that sent Click or DoubleClick:
\*   at, emit: when, and which of the two
\*   long:     a LongPressed has been sent for the button since
\*   first:    no release of the button had sent Click or DoubleClick before
\*   gap:      the time since the one before (0 when first)
\*   afterLong: a LongPressed was sent between the one before and this one
NoQual == [seen |-> FALSE, at |-> 0, emit |-> "none", long |-> FALSE,
           first |-> TRUE, gap |-> 0, afterLong |-> FALSE]
QualRecord(b, r) ==
    IF r.emit.k \in {"Click", "DoubleClick"}
    THEN [seen |-> TRUE, at |-> now, emit |-> r.emit.k, long |-> FALSE,
          first |-> ~qualRel[b].seen,
          gap |-> IF qualRel[b].seen THEN now - qualRel[b].at ELSE 0,
          afterLong |-> qualRel[b].long]
    ELSE qualRel[b]

\* ============================================== btns_exec (main.rs)
\* One iteration of the loop of btns_exec: select3 over the two edge waits
\* and a Ticker created in this iteration, then the handler of the winner.

\* Either3::First / Either3::Second: an edge of button b; the handler reads
\* the pin and calls on_release (pin high) or on_press (pin low).
\* budget: the number of edges the button may make in a run.
Edge(b, budget) ==
    /\ ~panicked
    /\ CanSend(chan[b])
    /\ edges[b] < budget
    /\ edges' = [edges EXCEPT ![b] = @ + 1]
    /\ pin' = [pin EXCEPT ![b] = ~pin[b]]
    /\ LET r == IF pin[b]
                THEN on_release_result(last_press_time[b], last_release_time[b], now)
                ELSE on_press_result(last_press_time[b], last_release_time[b], now)
       IN /\ last_press_time' = [last_press_time EXCEPT ![b] = r.lp]
          /\ last_release_time' = [last_release_time EXCEPT ![b] = r.lr]
          /\ chan' = [chan EXCEPT ![b] = Send(@, r.emit)]
          /\ sincePress' = [sincePress EXCEPT ![b] = Sent(@, r.emit)]
          /\ inflight' = [inflight EXCEPT ![b] = InFlight(@, r.emit)]
          /\ IF pin[b]
             THEN /\ prevRel' = [prevRel EXCEPT ![b] = ReleaseRecord(b, r)]
                  /\ qualRel' = [qualRel EXCEPT ![b] = QualRecord(b, r)]
                  /\ pressAt' = [pressAt EXCEPT ![b] = 0]
                  /\ UNCHANGED longCount
             ELSE /\ pressAt' = [pressAt EXCEPT ![b] = now]
                  /\ longCount' = [longCount EXCEPT ![b] = 0]
                  /\ UNCHANGED <<prevRel, qualRel>>
          /\ clickDisp' = [clickDisp EXCEPT ![b] =
                IF r.emit.k = "Click"
                THEN [t |-> now, g |-> "pending"] ELSE @]
    /\ tickerDue' = now + TICK_PERIOD
    /\ UNCHANGED <<now, ctlVars, setVars, envVars, loopVars, drvVars, lockVars, longDisp,
                   lastRecv, delivery_ok, nGestures,
                   lastInput, trail>>

BtnEdge(b) == Edge(b, MaxEdges)

\* Either3::Third: the ticker fired; button_a.update() then button_b.update().
Tick ==
    /\ ~panicked
    /\ now >= tickerDue
    /\ LET r == [b \in Buttons |->
                    update_result(last_press_time[b], last_release_time[b], now)]
       IN /\ \A b \in Buttons : r[b].emit # NoEvent => CanSend(chan[b])
          /\ last_press_time' = [b \in Buttons |-> r[b].lp]
          /\ last_release_time' = [b \in Buttons |-> r[b].lr]
          /\ chan' = [b \in Buttons |-> Send(chan[b], r[b].emit)]
          /\ sincePress' = [b \in Buttons |-> Sent(sincePress[b], r[b].emit)]
          /\ inflight' = [b \in Buttons |-> InFlight(inflight[b], r[b].emit)]
          /\ longCount' = [b \in Buttons |->
                IF r[b].emit # NoEvent THEN longCount[b] + 1 ELSE longCount[b]]
          /\ qualRel' = [b \in Buttons |->
                IF r[b].emit # NoEvent THEN [qualRel[b] EXCEPT !.long = TRUE]
                ELSE qualRel[b]]
          /\ longDisp' = [b \in Buttons |->
                IF r[b].emit # NoEvent
                THEN [t |-> now, g |-> "pending", role |-> "", other |-> "",
                      otherT |-> 0, held |-> pin[b]]
                ELSE longDisp[b]]
    /\ tickerDue' = now + TICK_PERIOD
    /\ UNCHANGED <<now, pin, edges, ctlVars, setVars, envVars, loopVars,
                   drvVars, lockVars, pressAt, prevRel, clickDisp, lastRecv, delivery_ok,
                   nGestures,
                   lastInput, trail>>

\* The clock advances while every task waits: both channels are drained and
\* the ticker of btns_exec has not fired yet.
\* steps: the number of steps of the clock in a run.
Clock(steps) ==
    /\ ~panicked
    /\ \A b \in Buttons : chan[b] = <<>>
    /\ now < tickerDue
    /\ (now - BootTime) \div TimeStep < steps
    /\ now' = now + TimeStep
    /\ UNCHANGED <<edges, pin, last_press_time, last_release_time, tickerDue, chan,
                   ctlVars, setVars, envVars, loopVars, drvVars, lockVars, obsBtn, obsCtl,
                   nGestures,
                   lastInput, trail>>

Advance == Clock(MaxSteps)


\* ============================================ Controller (controller.rs)
\* PubSubChannel<_, _, 2, 2, 1>, ImmediatePublisher::publish_immediate: the
\* oldest message is dropped when the queue is full.
\* A publish that gives up when the queue is full (try_publish).
publish_unless_full(q, m) ==
    IF Len(q) >= PUBSUB_CAP THEN q ELSE Append(q, m)

publish_immediate(q, m) ==
    IF Len(q) >= PUBSUB_CAP THEN Append(Tail(q), m) ELSE Append(q, m)

instant_diff(a, b) == IF a > b THEN a - b ELSE b - a

\* The gesture one iteration of Controller::task dispatches, from the two
\* logical button states and the flag of the button that produced the event.
\* The single gesture dispatched whatever the other button's state.
SingleGestureUnguarded(own, other, long, click, dbk) ==
    CASE own.k = "LongPressed" -> long
      [] own.k = "Click" -> click
      [] own.k = "DoubleClick" -> dbk
      [] OTHER -> NoGesture

SingleGesture(own, other, long, click, dbk) ==
    IF other.k \in {"Pressed", "LongPressed"} THEN NoGesture
    ELSE CASE own.k = "LongPressed" -> long
           [] own.k = "Click" -> click
           [] own.k = "DoubleClick" -> dbk
           [] OTHER -> NoGesture

\* The gesture when the flag of the latest button is not consulted: Up's
\* state first, Down's when Up's gives nothing.
GestureUpFirst(up, down, ul) ==
    IF down = Pressed \/ up = Pressed THEN NoGesture
    ELSE IF /\ up.k = "LongPressed" /\ down.k = "LongPressed"
            /\ instant_diff(up.t, down.t) < MAX_SIMULTANEOUS_PRESS_DELAY
        THEN "UpAndDownLong"
    ELSE IF /\ up.k = "Click" /\ down.k = "Click"
            /\ instant_diff(up.t, down.t) < MAX_SIMULTANEOUS_PRESS_DELAY
        THEN "UpAndDown"
    ELSE IF SingleGesture(up, down, "UpLong", "Up", "UpDbk") # NoGesture
        THEN SingleGesture(up, down, "UpLong", "Up", "UpDbk")
    ELSE SingleGesture(down, up, "DownLong", "Down", "DownDbk")

\* The handle_input calls of one iteration of Controller::task when the
\* `continue` after a two-button dispatch is left out: the single-button
\* match runs as well.
DispatchesFallThrough(up, down, ul) ==
    LET single == IF ul THEN SingleGesture(up, down, "UpLong", "Up", "UpDbk")
                  ELSE SingleGesture(down, up, "DownLong", "Down", "DownDbk")
        both == IF /\ up.k = "LongPressed" /\ down.k = "LongPressed"
                   /\ instant_diff(up.t, down.t) < MAX_SIMULTANEOUS_PRESS_DELAY
                THEN <<"UpAndDownLong">>
                ELSE IF /\ up.k = "Click" /\ down.k = "Click"
                        /\ instant_diff(up.t, down.t)
                             < MAX_SIMULTANEOUS_PRESS_DELAY
                    THEN <<"UpAndDown">>
                ELSE <<>>
    IN IF down = Pressed \/ up = Pressed THEN <<>>
       ELSE both \o (IF single = NoGesture THEN <<>> ELSE <<single>>)

\* The handle_input calls of one iteration of Controller::task, in order:
\* each branch that dispatches a two-button gesture ends in `continue`.
Dispatches(up, down, ul) ==
    IF down = Pressed \/ up = Pressed THEN <<>>
    ELSE IF /\ up.k = "LongPressed" /\ down.k = "LongPressed"
            /\ instant_diff(up.t, down.t) < MAX_SIMULTANEOUS_PRESS_DELAY
        THEN <<"UpAndDownLong">>
    ELSE IF /\ up.k = "Click" /\ down.k = "Click"
            /\ instant_diff(up.t, down.t) < MAX_SIMULTANEOUS_PRESS_DELAY
        THEN <<"UpAndDown">>
    ELSE LET single ==
                IF ul THEN SingleGesture(up, down, "UpLong", "Up", "UpDbk")
                ELSE SingleGesture(down, up, "DownLong", "Down", "DownDbk")
         IN IF single = NoGesture THEN <<>> ELSE <<single>>

\* The first of them.
Gesture(up, down, ul) ==
    LET calls == Dispatches(up, down, ul)
    IN IF calls = <<>> THEN NoGesture ELSE calls[1]

\* Which logical button the event of physical button b is stored against.
DrivesUp(b, dir) == (b = "A") <=> (dir = "Normal")

\* ---------------------------------------------- setting computations
toggle(d) == IF d = "Normal" THEN "Reversed" ELSE "Normal"
backlight_up(v) == IF v > 10 THEN 10 ELSE v + 1
backlight_down(v) == IF v < 1 THEN 0 ELSE v - 1
threshold_up(v) == IF v > OCP_MAX THEN 10 * Quarters ELSE v + 1
threshold_down(v) == IF v < 10 * Quarters THEN 0 ELSE v - 1
\* The item after the next one.
setting_skip(item) ==
    LET i == Position(SETTING_ITEMS, item)
    IN  SETTING_ITEMS[IF i = 0 THEN 1 ELSE ((i + 1) % Len(SETTING_ITEMS)) + 1]

setting_next(item) ==
    LET i == Position(SETTING_ITEMS, item)
    IN  SETTING_ITEMS[IF i = 0 THEN 1 ELSE (i % Len(SETTING_ITEMS)) + 1]
\* A Down that stops at the first item instead of wrapping to the last.
setting_prev_saturating(item) ==
    LET i == Position(SETTING_ITEMS, item)
    IN  SETTING_ITEMS[IF i <= 1 THEN 1 ELSE i - 1]

setting_prev(item) ==
    LET i == Position(SETTING_ITEMS, item)
    IN  SETTING_ITEMS[IF i = 0 THEN 1
                      ELSE ((i - 1 + Len(SETTING_ITEMS) - 1) % Len(SETTING_ITEMS)) + 1]

\* get_available_voltages(): the entries of VOLTAGE_ITEMS whose current in
\* the capability table is present, in table order.
get_available_voltages ==
    SelectSeq(VOLTAGE_ITEMS, LAMBDA v : v \in available)

\* up_voltage / down_voltage index `available[0]` and take `% available.len()`:
\* both panic on an empty list.
voltage_panics(avail) == Len(avail) = 0
up_voltage(avail, selected) ==
    LET index == Position(avail, selected)
    IN  IF index = 0 THEN avail[1] ELSE avail[(index % Len(avail)) + 1]
down_voltage(avail, selected) ==
    LET index == Position(avail, selected)
    IN  IF index = 0 THEN avail[1]
        ELSE avail[((index - 1 + Len(avail) - 1) % Len(avail)) + 1]


\* -------------------------------------------------------- handle_input
\* Every arm takes the setting's lock, computes, releases and publishes.
Pub(name, m) == [topics EXCEPT ![name] = publish_immediate(@, m)]

\* The subscribers (Display::new, OutputController::new, main) and the topic
\* of each. Every subscriber reads at its own pace; a message leaves the
\* queue of capacity 2 when all have read it, so a subscriber loses the
\* oldest message exactly when it has two unread and a third is published.
TopicOf == [page_sub |-> "page", direction_sub |-> "direction",
            output_sub |-> "output", ctrl_output_sub |-> "output",
            pdo_sub |-> "pdo"]
Subscribers == DOMAIN TopicOf
Deliver(name, m) ==
    [s \in Subscribers |->
        IF TopicOf[s] = name THEN publish_immediate(unread[s], m)
        ELSE unread[s]]
Lagged(name) ==
    {s \in Subscribers : TopicOf[s] = name /\ Len(unread[s]) >= PUBSUB_CAP}

\* publish_immediate(m) on a topic, made while the coordinator holds the
\* given locks.
Publish(name, m, locks) ==
    /\ topics' = Pub(name, m)
    /\ unread' = Deliver(name, m)
    /\ missed' = missed \cup Lagged(name)
    /\ pubHeld' = [pubHeld EXCEPT ![name] = locks]

NoChange == UNCHANGED setVars

SetPage(pg) ==
    /\ page' = pg
    /\ Publish("page", pg, {})
    /\ UNCHANGED <<direction, backlight, display_direction, ocp, uvp, pdo,
                   output, panicked>>

SetBacklight(v) ==
    /\ backlight' = v
    /\ Publish("backlight", v, {"page"})
    /\ UNCHANGED <<direction, page, display_direction, ocp, uvp, pdo, output,
                   panicked>>

SetUvp(v) ==
    /\ uvp' = v
    /\ Publish("uvp", v, {"page"})
    /\ UNCHANGED <<direction, page, backlight, display_direction, ocp, pdo,
                   output, panicked>>

SetOcp(v) ==
    /\ ocp' = v
    /\ Publish("ocp", v, {"page"})
    /\ UNCHANGED <<direction, page, backlight, display_direction, uvp, pdo,
                   output, panicked>>

\* Leaving the Voltage page without the commit.
LeaveUncommitted(pg, selected) == SetPage(pg)

\* Page::Voltage, UpAndDown / UpAndDownLong: leave the page, commit the PDO.
CommitPdo(pg, selected) ==
    /\ page' = pg
    /\ pdo' = selected
    /\ topics' = [topics EXCEPT !["page"] = publish_immediate(@, pg),
                                !["pdo"] = publish_immediate(@, selected)]
    /\ unread' = [s \in Subscribers |->
            IF TopicOf[s] = "page" THEN publish_immediate(unread[s], pg)
            ELSE IF TopicOf[s] = "pdo"
                THEN publish_immediate(unread[s], selected)
            ELSE unread[s]]
    /\ missed' = missed \cup Lagged("page") \cup Lagged("pdo")
    /\ pubHeld' = [pubHeld EXCEPT !["page"] = {}, !["pdo"] = {"pdo"}]
    /\ UNCHANGED <<direction, backlight, display_direction, ocp, uvp, output,
                   panicked>>

Panic ==
    /\ panicked' = TRUE
    /\ UNCHANGED <<direction, page, backlight, display_direction, ocp, uvp,
                   pdo, output, topics, unread, missed, pubHeld>>

switch_direction ==
    /\ display_direction' = toggle(display_direction)
    /\ direction' = display_direction'
    /\ Publish("direction", display_direction', {"page"})
    /\ UNCHANGED <<page, backlight, ocp, uvp, pdo, output, panicked>>

\* Page::Monitor toggles DISPLAY_DIRECTION_MUTEX inline and does not assign
\* self.direction.
MonitorDbk ==
    /\ display_direction' = toggle(display_direction)
    /\ Publish("direction", display_direction', {"page"})
    /\ UNCHANGED <<direction, page, backlight, ocp, uvp, pdo, output, panicked>>

MonitorOutput ==
    /\ output' = ~output
    /\ Publish("output", output', {"page", "output"})
    /\ UNCHANGED <<direction, page, backlight, display_direction, ocp, uvp,
                   pdo, panicked>>

MonitorInput(btns) ==
    CASE btns = "Up" -> SetBacklight(backlight_up(backlight))
      [] btns = "Down" -> SetBacklight(backlight_down(backlight))
      [] btns = "UpLong" -> NoChange
      [] btns = "DownLong" -> SetBacklight(0)
      [] btns \in {"UpDbk", "DownDbk"} -> MonitorDbk
      [] btns = "UpAndDown" -> SetPage(PageSetting("Voltage"))
      [] btns = "UpAndDownLong" -> MonitorOutput

SubPage(item) ==
    CASE item = "Voltage" -> PageVoltage(selected_voltage)
      [] item = "UVP" -> PageUVP
      [] item = "OCP" -> PageOCP
      [] item = "About" -> PageAbout

SettingInput(item, btns) ==
    CASE btns = "Up" -> SetPage(PageSetting(setting_next(item)))
      [] btns = "Down" -> SetPage(PageSetting(setting_prev(item)))
      [] btns \in {"UpLong", "DownLong"} -> NoChange
      [] btns \in {"UpDbk", "DownDbk"} -> switch_direction
      [] btns = "UpAndDown" -> SetPage(SubPage(item))
      [] btns = "UpAndDownLong" -> SetPage(PageMonitor)

VoltageInput(selected, btns) ==
    CASE btns = "Up" ->
            IF voltage_panics(get_available_voltages) THEN Panic
            ELSE SetPage(PageVoltage(up_voltage(get_available_voltages, selected)))
      [] btns = "Down" ->
            IF voltage_panics(get_available_voltages) THEN Panic
            ELSE SetPage(PageVoltage(down_voltage(get_available_voltages, selected)))
      [] btns = "UpAndDown" -> CommitPdo(PageSetting("UVP"), selected)
      [] btns = "UpAndDownLong" -> CommitPdo(PageMonitor, selected)
      [] btns \in {"UpDbk", "DownDbk"} -> switch_direction
      [] OTHER -> NoChange

UvpInput(btns) ==
    CASE btns = "Up" -> SetUvp(threshold_up(uvp))
      [] btns = "Down" -> SetUvp(threshold_down(uvp))
      [] btns = "UpAndDown" -> SetPage(PageSetting("UVP"))
      [] btns \in {"UpDbk", "DownDbk"} -> switch_direction
      [] OTHER -> NoChange

\* The OCP arm writing the other threshold.
OcpInputSetsUvp(btns) ==
    CASE btns = "Up" -> SetUvp(threshold_up(ocp))
      [] btns = "Down" -> SetUvp(threshold_down(ocp))
      [] btns = "UpAndDown" -> SetPage(PageSetting("OCP"))
      [] btns \in {"UpDbk", "DownDbk"} -> switch_direction
      [] OTHER -> NoChange

OcpInput(btns) ==
    CASE btns = "Up" -> SetOcp(threshold_up(ocp))
      [] btns = "Down" -> SetOcp(threshold_down(ocp))
      [] btns = "UpAndDown" -> SetPage(PageSetting("OCP"))
      [] btns \in {"UpDbk", "DownDbk"} -> switch_direction
      [] OTHER -> NoChange

AboutInput(btns) ==
    CASE btns \in {"UpDbk", "DownDbk"} -> switch_direction
      [] OTHER -> SetPage(PageSetting("About"))

handle_input(btns) ==
    CASE page.p = "Monitor" -> MonitorInput(btns)
      [] page.p = "Setting" -> SettingInput(page.a, btns)
      [] page.p = "Voltage" -> VoltageInput(page.a, btns)
      [] page.p = "UVP" -> UvpInput(btns)
      [] page.p = "OCP" -> OcpInput(btns)
      [] page.p = "About" -> AboutInput(btns)

\* ------------------------------------------------- Controller::task
\* One iteration of the loop: take the next event of button b's channel,
\* store it against its logical button, and dispatch at most one gesture.
\* select polls button A's channel first: B's is taken only when A's is empty.
Receive(b) ==
    /\ ~panicked
    /\ chan[b] # <<>>
    /\ b = "B" => chan["A"] = <<>>
    /\ LET s == Head(chan[b])
           toUp == DrivesUp(b, direction)
           up == IF toUp THEN s ELSE btn_up_state
           down == IF toUp THEN btn_down_state ELSE s
           g == Gesture(up, down, toUp)
       IN /\ chan' = [chan EXCEPT ![b] = Tail(@)]
          /\ btn_up_state' = up
          /\ btn_down_state' = down
          /\ up_last' = toUp
          /\ IF g = NoGesture THEN NoChange ELSE handle_input(g)
          /\ longDisp' = [longDisp EXCEPT ![b] =
                IF s.k = "LongPressed"
                THEN [t |-> s.t, g |-> g,
                      role |-> IF toUp THEN "Up" ELSE "Down",
                      other |-> IF toUp THEN btn_down_state.k ELSE btn_up_state.k,
                      otherT |-> IF toUp THEN btn_down_state.t ELSE btn_up_state.t,
                      held |-> @.held]
                ELSE @]
          /\ clickDisp' = [clickDisp EXCEPT ![b] =
                IF s.k = "Click" THEN [t |-> s.t, g |-> g] ELSE @]
          /\ lastRecv' = [b |-> b, k |-> s.k, g |-> g,
                          n |-> Len(Dispatches(up, down, toUp))]
          /\ delivery_ok' = (delivery_ok /\ inflight[b] # <<>>
                                          /\ Head(inflight[b]) = s)
          /\ inflight' = [inflight EXCEPT ![b] =
                IF @ = <<>> THEN @ ELSE Tail(@)]
    /\ UNCHANGED <<btnVars, envVars, loopVars, drvVars, lockVars, obsBtn, nGestures,
                   lastInput, trail>>

\* A gesture handed to handle_input directly (gesture-level specifications).
Feed(btns) ==
    /\ ~panicked
    /\ nGestures' = nGestures + 1
    /\ lastInput' = btns
    /\ handle_input(btns)
    /\ UNCHANGED <<btnVars, chan, ctlVars, envVars, loopVars, drvVars, lockVars, obsBtn,
                   obsCtl>>

Dispatch(btns) == Feed(btns) /\ UNCHANGED trail

\* The same, followed: the gesture, the page before and after it, and the
\* page topic after it are appended to the trail.
Track(btns) ==
    /\ Feed(btns)
    /\ trail' = Append(trail, [btns |-> btns, from |-> page, to |-> page',
                               pub |-> topics'["page"]])

\* ================================================== Display (display.rs)
\* Readings are in thousandths; a string is a sequence of characters.
PrimaryFields == {"volts", "amps", "watts"}
Thousand == 1000
DigitChars == <<"0", "1", "2", "3", "4", "5", "6", "7", "8", "9">>

RECURSIVE IntDigits(_)
IntDigits(n) ==
    IF n < 10 THEN <<DigitChars[n + 1]>>
    ELSE Append(IntDigits(n \div 10), DigitChars[(n % 10) + 1])

\* The fraction digits of f thousandths, without trailing zeros (one digit
\* at least).
FracDigits(f) ==
    IF f % 100 = 0 THEN <<DigitChars[(f \div 100) + 1]>>
    ELSE IF f % 10 = 0
        THEN <<DigitChars[(f \div 100) + 1], DigitChars[((f \div 10) % 10) + 1]>>
    ELSE <<DigitChars[(f \div 100) + 1], DigitChars[((f \div 10) % 10) + 1],
           DigitChars[(f % 10) + 1]>>

\* ryu::Buffer::format of a non-negative reading: the shortest decimal that
\* reads back as the value, with one fraction digit at least ("12.0").
ryu_format(v) ==
    IntDigits(v \div Thousand) \o <<".">> \o FracDigits(v % Thousand)

\* chars.next() at position idx (from 0): the character, or None.
CharAt(str, idx) == IF idx + 1 <= Len(str) THEN str[idx + 1] ELSE "None"

\* render_monitor: the write_area calls, in order, one per re-blitted column.
MONITOR_PRIMARY_X == 14
PrimaryGlyphWidth == 24
PrimaryColumns == <<0, 1, 2, 3, 4>>
\* The cell without the '0' of a value that is shorter: nothing is drawn
\* for a column past its end.
PrimaryCellUnpadded(curr, idx) ==
    [idx |-> idx,
     x |-> MONITOR_PRIMARY_X + idx * PrimaryGlyphWidth,
     ch |-> IF CharAt(curr, idx) = "None" THEN " " ELSE CharAt(curr, idx)]
PrimaryCell(curr, idx) ==
    [idx |-> idx,
     x |-> MONITOR_PRIMARY_X + idx * PrimaryGlyphWidth,
     ch |-> IF CharAt(curr, idx) = "None" THEN "0" ELSE CharAt(curr, idx)]
RedrawnUnforced(curr, prev, force_render, idx) ==
    CharAt(curr, idx) # CharAt(prev, idx)
Redrawn(curr, prev, force_render, idx) ==
    ~ (CharAt(curr, idx) = CharAt(prev, idx) /\ ~force_render)
RECURSIVE CellsFrom(_, _, _, _)
CellsFrom(curr, prev, force_render, idx) ==
    IF idx >= Len(PrimaryColumns) THEN <<>>
    ELSE (IF Redrawn(curr, prev, force_render, idx)
          THEN <<PrimaryCell(curr, idx)>> ELSE <<>>)
         \o CellsFrom(curr, prev, force_render, idx + 1)
render_monitor(curr, prev, force_render) ==
    CellsFrom(curr, prev, force_render, 0)

\* The panel where a primary field is shown: the glyph of each of the five
\* columns (a glyph is named by its character: the font tables are not part
\* of the sources), or nothing of the field after fill_color.
Cleared == "cleared"
ClearedColumns == [i \in 1..Len(PrimaryColumns) |-> Cleared]
\* write_area for each cell, in order: the later write of a column stays.
\* (The cells are bound as cs, so that they are computed once.)
Blitted(columns, cells) ==
    CHOOSE shown \in
        {[i \in 1..Len(PrimaryColumns) |->
            LET at == {k \in 1..Len(cs) : cs[k].idx = i - 1}
            IN IF at = {} THEN columns[i]
               ELSE cs[CHOOSE k \in at : \A j \in at : j <= k].ch]
         : cs \in {cells}} : TRUE

\* The panel after update_layout has run to its end: cleared, and on the
\* Monitor page every column of the three fields drawn from the stored value.
LaidOut(pg, pi) ==
    [f \in PrimaryFields |->
        IF pg.p = "Monitor"
        THEN Blitted(ClearedColumns,
                     render_monitor(ryu_format(pi[f]), ryu_format(pi[f]), TRUE))
        ELSE ClearedColumns]

NoRender == [field |-> "", curr |-> <<>>, prev |-> <<>>, force |-> FALSE]

\* update_monitor_amps only: readings below 0.0001 are shown as 0.0.
ClampAmps(field, v) == IF field = "amps" /\ v * 10 < 1 THEN 0 ELSE v

\* update_monitor_volts / _amps / _watts with the force_render flag as given:
\* nothing off the Monitor page; else render the difference and store.
update_monitor(field, reading, force_render) ==
    IF disp_page.p # "Monitor"
    THEN UNCHANGED <<power_info, blits, lastRender, panel>>
    ELSE LET v == ClampAmps(field, reading)
             curr == ryu_format(v)
             prev == ryu_format(power_info[field])
         IN /\ blits' = render_monitor(curr, prev, force_render)
            /\ panel' = [panel EXCEPT ![field] =
                            Blitted(@, render_monitor(curr, prev, force_render))]
            /\ lastRender' = [field |-> field, curr |-> curr, prev |-> prev,
                              force |-> force_render]
            /\ power_info' = [power_info EXCEPT ![field] = v]

\* A sensor reading shown by main's loop: force_render is false there.
UpdateReading(field, reading) ==
    /\ update_monitor(field, reading, FALSE)
    /\ UNCHANGED <<btnVars, chan, ctlVars, setVars, envVars, obsBtn, obsCtl,
                   nGestures, lastInput, trail, disp_page, disp_direction,
                   disp_output, loop_pc,
                   ctrl_pin, amps_sample, drvVars, lockVars, rndVars>>

\* update_layout on the Monitor page redraws a primary field with
\* force_render set, from the stored value.
RedrawField(field) ==
    /\ disp_page.p = "Monitor"
    /\ update_monitor(field, power_info[field], TRUE)
    /\ UNCHANGED <<btnVars, chan, ctlVars, setVars, envVars, obsBtn, obsCtl,
                   nGestures, lastInput, trail, disp_page, disp_direction,
                   disp_output, loop_pc,
                   ctrl_pin, amps_sample, drvVars, lockVars, rndVars>>

\* ------------------------------------- the renderer's bus operations
\* Every fill_color, set_orientation and write_area the renderer issues, in
\* order: `of` is the function that issued it, `ch` the glyph (or the
\* orientation, or the argument of a settings layout).
MONITOR_PRIMARY_Y1 == 6
MONITOR_PRIMARY_Y2 == 62
MONITOR_PRIMARY_Y3 == 118
MONITOR_PRIMARY_UINT_X == 138
MONITOR_PRIMARY_UINT_Y1 == 30
MONITOR_PRIMARY_UINT_Y2 == 86
MONITOR_PRIMARY_UINT_Y3 == 142
MONITOR_SECONDARY_X1 == 164
MONITOR_SECONDARY_X2 == 222
MONITOR_SECONDARY_X3 == 286
MONITOR_SECONDARY_Y1 == 4
MONITOR_SECONDARY_Y2 == 32
MONITOR_SECONDARY_Y3 == 60
MONITOR_SECONDARY_Y5 == 116
StatusGlyphWidth == 16
StatusLen == 4
OutputLen == 3

SecondaryFields == {"target_volts", "limit_amps", "ocp_amps"}
PrimaryY == [volts |-> MONITOR_PRIMARY_Y1, amps |-> MONITOR_PRIMARY_Y2,
             watts |-> MONITOR_PRIMARY_Y3]
SecondaryY == [target_volts |-> MONITOR_SECONDARY_Y1,
               limit_amps |-> MONITOR_SECONDARY_Y2,
               ocp_amps |-> MONITOR_SECONDARY_Y3]
StatusInfoDefault ==
    [target_volts |-> 0, limit_amps |-> 0, ocp_amps |-> 0, output |-> FALSE]

Op(of, op, x, y, ch) == [of |-> of, op |-> op, x |-> x, y |-> y, ch |-> ch]

\* render_status: one write_area per column, whatever was there before.
render_status(of, curr, x, y, len) ==
    [i \in 1..len |->
        Op(of, "write_area", x + (i - 1) * StatusGlyphWidth, y,
           IF CharAt(curr, i - 1) = "None" THEN "0" ELSE CharAt(curr, i - 1))]

\* update_monitor_volts / _amps / _watts: render_monitor's write_area calls.
primary_ops(field, curr, prev, force) ==
    LET cells == render_monitor(curr, prev, force)
    IN  [i \in 1..Len(cells) |->
            Op(field, "write_area", cells[i].x, PrimaryY[field], cells[i].ch)]

\* update_target_volts / _limit_amps / _ocp_amps: nothing off the Monitor
\* page, nothing for the value already shown unless forced.
status_skipped(pg, shown, v, force) ==
    pg.p # "Monitor" \/ (shown = v /\ ~force)
status_ops(field, v) ==
    render_status(field, ryu_format(v), MONITOR_SECONDARY_X2,
                  SecondaryY[field], StatusLen)

\* update_output
OutputText(out) == IF out THEN <<"O", "N", " ">> ELSE <<"O", "F", "F">>
output_ops(out) ==
    render_status("output", OutputText(out), MONITOR_SECONDARY_X2,
                  MONITOR_SECONDARY_Y5, OutputLen)

update_monitor_layout ==
    render_status("layout", <<"V">>, MONITOR_PRIMARY_UINT_X,
                  MONITOR_PRIMARY_UINT_Y1, 1)
    \o render_status("layout", <<"A">>, MONITOR_PRIMARY_UINT_X,
                     MONITOR_PRIMARY_UINT_Y2, 1)
    \o render_status("layout", <<"W">>, MONITOR_PRIMARY_UINT_X,
                     MONITOR_PRIMARY_UINT_Y3, 1)
    \o render_status("layout", <<"P", "D", "O">>, MONITOR_SECONDARY_X1,
                     MONITOR_SECONDARY_Y1, 3)
    \o render_status("layout", <<"O", "C", "P">>, MONITOR_SECONDARY_X1,
                     MONITOR_SECONDARY_Y3, 3)
    \o render_status("layout", <<"O", "u", "t">>, MONITOR_SECONDARY_X1,
                     MONITOR_SECONDARY_Y5, 3)
    \o render_status("layout", <<"V">>, MONITOR_SECONDARY_X3,
                     MONITOR_SECONDARY_Y1, 1)
    \o render_status("layout", <<"A">>, MONITOR_SECONDARY_X3,
                     MONITOR_SECONDARY_Y2, 1)
    \o render_status("layout", <<"A">>, MONITOR_SECONDARY_X3,
                     MONITOR_SECONDARY_Y3, 1)

\* The layout functions of the other pages draw fixed text with write_area
\* and render_status, unconditionally: one entry stands for each call.
LayoutCall(name, arg) == <<Op(name, "write_area", 0, 0, arg)>>

\* The Monitor arm of update_layout after the labels: force_render is set,
\* so every field is drawn from the stored value, in full.
monitor_fields(pi, si, out) ==
    primary_ops("amps", ryu_format(pi["amps"]), ryu_format(pi["amps"]), TRUE)
    \o primary_ops("volts", ryu_format(pi["volts"]), ryu_format(pi["volts"]), TRUE)
    \o primary_ops("watts", ryu_format(pi["watts"]), ryu_format(pi["watts"]), TRUE)
    \o status_ops("target_volts", si.target_volts)
    \o status_ops("limit_amps", si.limit_amps)
    \o status_ops("ocp_amps", si.ocp_amps)
    \o output_ops(out)

FillOp == Op("update_layout", "fill_color", 0, 0, "background")

\* Labels after the fields.
layout_fields_first(pg, pi, si, out) ==
    <<FillOp>> \o monitor_fields(pi, si, out) \o update_monitor_layout

layout_ops(pg, pi, si, out) ==
    <<FillOp>>
    \o CASE pg.p = "Monitor" ->
                update_monitor_layout \o monitor_fields(pi, si, out)
         [] pg.p = "Setting" -> LayoutCall("update_setting_layout", pg.a)
         [] pg.p = "Voltage" ->
                LayoutCall("update_setting_layout", "Voltage")
                \o LayoutCall("update_voltage_layout", pg.a)
         [] pg.p = "UVP" -> update_monitor_layout
         [] pg.p = "OCP" ->
                LayoutCall("update_setting_layout", "Voltage")
                \o LayoutCall("update_ocp_layout", "")
         [] pg.p = "About" ->
                LayoutCall("update_setting_layout", "About")
                \o LayoutCall("update_about_layout", "")

OrientationOf(d) == IF d = "Normal" THEN "Landscape" ELSE "LandscapeSwapped"
OrientOp(d) == Op("reinit", "set_orientation", 0, 0, OrientationOf(d))

\* The panel cleared before the orientation command.
reinit_clear_first(d, pg, pi, si, out) ==
    <<FillOp, OrientOp(d)>> \o Tail(layout_ops(pg, pi, si, out))

reinit_ops(d, pg, pi, si, out) ==
    <<OrientOp(d)>> \o layout_ops(pg, pi, si, out)

\* The panel after the operations given, in order (a call that the bus
\* ended early): fill_color clears it, a write_area of a primary field puts
\* the glyph in its column.
ColumnAt(x) == (x - MONITOR_PRIMARY_X) \div PrimaryGlyphWidth
IsPrimaryWrite(h) == h.op = "write_area" /\ h.of \in PrimaryFields
Drawn(shown, o) ==
    LET fills == {k \in 1..Len(o) : o[k].op = "fill_color"}
        from == IF fills = {} THEN 0
                ELSE CHOOSE k \in fills : \A j \in fills : j <= k
        base == IF from = 0 THEN shown
                ELSE [f \in PrimaryFields |-> ClearedColumns]
        w == SelectSeq(SubSeq(o, from + 1, Len(o)), IsPrimaryWrite)
    IN [f \in PrimaryFields |->
           [i \in 1..Len(PrimaryColumns) |->
               LET hits == {k \in 1..Len(w) :
                               w[k].of = f /\ ColumnAt(w[k].x) + 1 = i}
               IN IF hits = {} THEN base[f][i]
                  ELSE w[CHOOSE k \in hits : \A j \in hits : j <= k].ch]]

\* The operations of a call tagged with the message (or reading) that caused
\* them, the one the bus fails on being the last.
Tagged(by, o) == [i \in 1..Len(o) |-> [by |-> by, ok |-> TRUE] @@ o[i]]
UpTo(all, fault) ==
    IF fault \in 1..Len(all)
    THEN [i \in 1..fault |-> IF i = fault THEN [all[i] EXCEPT !.ok = FALSE]
                                      ELSE all[i]]
    ELSE all

\* status_info.output after update_layout / update_output.
shown_output(pg, si, out) ==
    IF pg.p = "Monitor" THEN [si EXCEPT !.output = out] ELSE si

NoTick == [from |-> PageMonitor, direction |-> <<>>, page |-> <<>>,
           output |-> <<>>]

\* Display::task: at most one message of each topic, direction, page, output
\* in this order. A failing bus operation is unwrapped: the firmware panics.
DisplayTask(dmsg, pmsg, omsg, fault) ==
    LET pg1 == IF pmsg # <<>> THEN pmsg[1] ELSE disp_page
        d_ops == IF dmsg = <<>> THEN <<>>
                 ELSE Tagged("direction",
                             reinit_ops(dmsg[1], disp_page, power_info,
                                        status_info, disp_output))
        si1 == IF dmsg = <<>> THEN status_info
               ELSE shown_output(disp_page, status_info, disp_output)
        f1 == IF dmsg = <<>> THEN disp_force_render ELSE FALSE
        p_ops == IF pmsg = <<>> THEN <<>>
                 ELSE Tagged("page", layout_ops(pg1, power_info, si1, disp_output))
        si2 == IF pmsg = <<>> THEN si1 ELSE shown_output(pg1, si1, disp_output)
        f2 == IF pmsg # <<>> /\ pg1.p = "Monitor" THEN FALSE ELSE f1
        drawn == omsg # <<>> /\ pg1.p = "Monitor"
                    /\ ~ (disp_output = omsg[1] /\ ~f2)
        o_ops == IF drawn THEN Tagged("output", output_ops(omsg[1])) ELSE <<>>
        si3 == IF drawn THEN [si2 EXCEPT !.output = omsg[1]] ELSE si2
        all == d_ops \o p_ops \o o_ops
        layout == pg1.p = "Monitor" /\ (dmsg # <<>> \/ pmsg # <<>>)
        watts == ryu_format(power_info["watts"])
    IN  /\ ~panicked
        /\ lastTick' = [from |-> disp_page, direction |-> dmsg, page |-> pmsg,
                         output |-> omsg]
        /\ ops' = UpTo(all, fault)
        /\ IF fault \in 1..Len(all)
           THEN /\ panicked' = TRUE
                /\ UNCHANGED <<disp_direction, disp_page, disp_output,
                               status_info, disp_force_render, blits, lastRender>>
                /\ panel' = Drawn(panel, ops')
           ELSE /\ panicked' = FALSE
                /\ disp_direction' = IF dmsg # <<>> THEN dmsg[1] ELSE disp_direction
                /\ disp_page' = pg1
                /\ disp_output' = IF omsg # <<>> THEN omsg[1] ELSE disp_output
                /\ status_info' = si3
                /\ disp_force_render' = f2
                /\ blits' = IF layout THEN render_monitor(watts, watts, TRUE)
                            ELSE blits
                /\ lastRender' = IF layout
                                 THEN [field |-> "watts", curr |-> watts,
                                       prev |-> watts, force |-> TRUE]
                                 ELSE lastRender
                /\ panel' = IF dmsg # <<>> \/ pmsg # <<>>
                            THEN LaidOut(pg1, power_info) ELSE panel
        /\ UNCHANGED <<btnVars, chan, ctlVars, envVars, drvVars, lockVars, obsBtn, obsCtl,
                       nGestures, lastInput, trail, direction, page, backlight,
                       display_direction, ocp, uvp, pdo, output, topics, unread,
                       missed, pubHeld, power_info, loop_pc, ctrl_pin,
                       amps_sample>>

\* update_target_volts / update_limit_amps / update_ocp_amps as main's loop
\* calls them.
UpdateStatus(field, v, fault) ==
    LET all == IF status_skipped(disp_page, status_info[field], v, disp_force_render)
               THEN <<>>
               ELSE Tagged(field, status_ops(field, v))
    IN  /\ ~panicked
        /\ ops' = UpTo(all, fault)
        /\ IF fault \in 1..Len(all)
           THEN panicked' = TRUE /\ UNCHANGED status_info
           ELSE /\ panicked' = FALSE
                /\ status_info' = IF all = <<>> THEN status_info
                                  ELSE [status_info EXCEPT ![field] = v]
        /\ UNCHANGED <<btnVars, chan, ctlVars, envVars, drvVars, lockVars, obsBtn, obsCtl,
                       nGestures, lastInput, trail, direction, page, backlight,
                       display_direction, ocp, uvp, pdo, output, topics, unread,
                       missed, pubHeld, disp_direction, disp_page, disp_output,
                       power_info, blits, panel, lastRender, loop_pc, ctrl_pin,
                       amps_sample, disp_force_render, lastTick>>

\* ------------------------------------------------- the menu windows
\* update_setting_layout / update_voltage_layout: the rows of the list, one
\* entry per render_status call. (The divider line update_setting_layout
\* writes first shows no entry and is left out.)
MENU_ROWS == 5
SETTING_ROW_HEIGHT == 34
VOLTAGE_ROW_HEIGHT == 38
SETTING_X == 10
VOLTAGE_X == 170
MinOf(a, b) == IF a < b THEN a ELSE b

\* .find(..).map(|(i, _)| i).unwrap_or(0), from 0.
offset_of(items, x) == IF Position(items, x) = 0 THEN 0 ELSE Position(items, x) - 1

\* The window shifted by one: the selection in the row above.
window_index_by_one(offset, i, n) == (offset + i + n - 1) % n
window_index(offset, i, n) == (offset + i + n - 2) % n

SettingText == [Voltage |-> "  PDO  ", UVP |-> "  UVP  ", OCP |-> "  OCP  ",
                About |-> " About "]
VoltageText == [_5v |-> "  5V  ", _9v |-> "  9V  ", _12v |-> " 12V  ",
                _15v |-> " 15V  ", _18v |-> " 18V  ", _20v |-> " 20V  "]

\* One render_status call of a list: the function, its argument, the row,
\* the position, the entry, its text and the two colours.
Row(of, arg, i, x, y, item, text, color, bg_color) ==
    <<of, arg, i, x, y, item, text, color, bg_color>>
RowOf(r) == r[1]
RowArg(r) == r[2]
RowIndex(r) == r[3]
RowItem(r) == r[6]
RowColor(r) == r[8]
RowBgColor(r) == r[9]

setting_row(setting_item, i) ==
    LET n == Len(SETTING_ITEMS)
        offset == offset_of(SETTING_ITEMS, setting_item)
        item == SETTING_ITEMS[window_index(offset, i, n) + 1]
    IN  Row("update_setting_layout", setting_item, i, SETTING_X,
            i * SETTING_ROW_HEIGHT, item, SettingText[item],
            IF item = setting_item THEN "COLOR_PRIMARY_CONTENT"
                                   ELSE "COLOR_TEXT",
            IF item = setting_item THEN "COLOR_PRIMARY"
                                   ELSE "COLOR_BACKGROUND")

\* for i in 0..SETTING_ITEMS.len().min(5)
RECURSIVE setting_rows_from(_, _)
setting_rows_from(setting_item, i) ==
    IF i >= MinOf(Len(SETTING_ITEMS), MENU_ROWS) THEN <<>>
    ELSE <<setting_row(setting_item, i)>>
         \o setting_rows_from(setting_item, i + 1)
setting_rows(setting_item) == setting_rows_from(setting_item, 0)

\* 5 V is always offered; the others when the table has a current for them.
voltage_available(item) == item = "_5v" \/ item \in available

voltage_row(selected, i) ==
    LET n == Len(VOLTAGE_ITEMS)
        offset == offset_of(VOLTAGE_ITEMS, selected)
        item == VOLTAGE_ITEMS[window_index(offset, i, n) + 1]
    IN  Row("update_voltage_layout", selected, i, VOLTAGE_X,
            i * VOLTAGE_ROW_HEIGHT, item, VoltageText[item],
            IF item = selected THEN "COLOR_PRIMARY_CONTENT"
            ELSE IF voltage_available(item) THEN "COLOR_TEXT"
            ELSE "COLOR_TEXT_DISABLED",
            IF item = selected THEN "COLOR_PRIMARY" ELSE "COLOR_BACKGROUND")

\* for i in 0..VOLTAGE_ITEMS.len().min(5)
RECURSIVE voltage_rows_from(_, _)
voltage_rows_from(selected, i) ==
    IF i >= MinOf(Len(VOLTAGE_ITEMS), MENU_ROWS) THEN <<>>
    ELSE <<voltage_row(selected, i)>> \o voltage_rows_from(selected, i + 1)
voltage_rows(selected) == voltage_rows_from(selected, 0)

\* A layout function called on its own; the bus does not fail. The rows are
\* drawn where the Monitor page has its fields.
MenuLayout(rows) ==
    /\ ~panicked
    /\ ops' = rows
    /\ panel' = [f \in PrimaryFields |-> ClearedColumns]
    /\ UNCHANGED <<btnVars, chan, ctlVars, setVars, envVars, drvVars, lockVars, obsBtn,
                   obsCtl, nGestures, lastInput, trail, disp_direction,
                   disp_page, disp_output, power_info, blits, lastRender,
                   loop_pc, ctrl_pin, amps_sample, status_info,
                   disp_force_render, lastTick>>

UpdateSettingLayout(setting_item) == MenuLayout(setting_rows(setting_item))
UpdateVoltageLayout(selected) == MenuLayout(voltage_rows(selected))

\* ================================================= main's loop (main.rs)
\* One iteration, a step per stretch between two suspension points:
\*   output_controller  OutputController::task
\*   direction, page, output   Display::task, one topic after the other
\*   volts, amps, watts  the three readings, the trip test with the current
\*   pdo                 the PDO message for the negotiator
\* The status fields (target voltage, limits) are not part of the model.
NoSample == [val |-> 0 - 1, ocp |-> 0]

\* try_next_message_pure: the oldest unread message is taken, if any.
Take(sub) == [unread EXCEPT ![sub] = IF @ = <<>> THEN @ ELSE Tail(@)]

LoopStep(pc, next) ==
    /\ ~panicked
    /\ loop_pc = pc
    /\ loop_pc' = next
    /\ UNCHANGED <<btnVars, chan, ctlVars, envVars, drvVars, lockVars, obsBtn, obsCtl,
                   nGestures, lastInput, trail, direction, page, backlight,
                   display_direction,
                   ocp, uvp, pdo, output, topics, missed, pubHeld, panicked,
                   rndVars>>

\* update_layout for the page given: on Monitor the three primary fields are
\* redrawn with force_render set, watts last.
update_layout(pg) ==
    IF pg.p # "Monitor"
    THEN /\ panel' = LaidOut(pg, power_info)
         /\ UNCHANGED <<power_info, blits, lastRender>>
    ELSE LET curr == ryu_format(power_info["watts"])
         IN /\ blits' = render_monitor(curr, curr, TRUE)
            /\ panel' = LaidOut(pg, power_info)
            /\ lastRender' = [field |-> "watts", curr |-> curr,
                              prev |-> curr, force |-> TRUE]
            /\ UNCHANGED power_info

\* OutputController::set_output: the level of the pin afterwards.
set_output_high(enable) == TRUE
set_output(enable) == enable

OutputControllerTask ==
    /\ LoopStep("output_controller", "direction")
    /\ unread' = Take("ctrl_output_sub")
    /\ ctrl_pin' = IF unread["ctrl_output_sub"] # <<>>
                   THEN set_output(Head(unread["ctrl_output_sub"]))
                   ELSE ctrl_pin
    /\ UNCHANGED <<disp_page, disp_direction, disp_output, power_info, blits,
                   panel, lastRender, amps_sample>>

DisplayDirection ==
    /\ LoopStep("direction", "page")
    /\ unread' = Take("direction_sub")
    /\ IF unread["direction_sub"] # <<>>
       THEN /\ disp_direction' = Head(unread["direction_sub"])
            /\ update_layout(disp_page)
       ELSE UNCHANGED <<disp_direction, power_info, blits, panel, lastRender>>
    /\ UNCHANGED <<disp_page, disp_output, ctrl_pin, amps_sample>>

DisplayPage ==
    /\ LoopStep("page", "output")
    /\ unread' = Take("page_sub")
    /\ IF unread["page_sub"] # <<>>
       THEN /\ disp_page' = Head(unread["page_sub"])
            /\ update_layout(disp_page')
       ELSE UNCHANGED <<disp_page, power_info, blits, panel, lastRender>>
    /\ UNCHANGED <<disp_direction, disp_output, ctrl_pin, amps_sample>>

DisplayOutput ==
    /\ LoopStep("output", "volts")
    /\ unread' = Take("output_sub")
    /\ disp_output' = IF unread["output_sub"] # <<>>
                      THEN Head(unread["output_sub"]) ELSE disp_output
    /\ UNCHANGED <<disp_page, disp_direction, power_info, blits, panel,
                   lastRender, ctrl_pin, amps_sample>>

\* What is shown when a reading fails (99999.99999).
ERR_READING == 99999999

\* The averages shown come from a floating-point filter, which is not
\* modelled: an average is any of the readings.
ReadVolts(readings) ==
    /\ LoopStep("volts", "amps")
    /\ \E v \in readings \cup {ERR_READING} : update_monitor("volts", v, FALSE)
    /\ UNCHANGED <<unread, disp_page, disp_direction, disp_output, ctrl_pin,
                   amps_sample>>

\* A current sample (quarters of an ampere, as the threshold), or none when
\* the reading fails: above the threshold the actuator is switched off and
\* the sample itself is shown.
ThousandthsOf(quarters) == quarters * (Thousand \div Quarters)

ReadAmps(samples, readings) ==
    /\ LoopStep("amps", "watts")
    /\ \/ \E amps \in samples :
            /\ amps_sample' = [val |-> amps, ocp |-> ocp]
            /\ IF amps > ocp
               THEN /\ ctrl_pin' = set_output(FALSE)
                    /\ update_monitor("amps", ThousandthsOf(amps), FALSE)
               ELSE /\ UNCHANGED ctrl_pin
                    /\ \E avg \in readings :
                            update_monitor("amps", avg, FALSE)
       \/ /\ update_monitor("amps", ERR_READING, FALSE)
          /\ amps_sample' = NoSample
          /\ UNCHANGED ctrl_pin
    /\ UNCHANGED <<unread, disp_page, disp_direction, disp_output>>

ReadWatts(readings) ==
    /\ LoopStep("watts", "pdo")
    /\ \E v \in readings \cup {ERR_READING} : update_monitor("watts", v, FALSE)
    /\ UNCHANGED <<unread, disp_page, disp_direction, disp_output, ctrl_pin,
                   amps_sample>>

TakePdo ==
    /\ LoopStep("pdo", "output_controller")
    /\ unread' = Take("pdo_sub")
    /\ UNCHANGED loopVarsButPc

Loop(samples, readings) ==
    \/ OutputControllerTask
    \/ DisplayDirection
    \/ DisplayPage
    \/ DisplayOutput
    \/ ReadVolts(readings)
    \/ ReadAmps(samples, readings)
    \/ ReadWatts(readings)
    \/ TakePdo

\* ======================================== ST7789 driver (st7789/src/lib.rs)
U16 == 65536
Byte == 256
SWRESET == 1
SLPOUT == 17
INVOFF == 32
INVON == 33
DISPON == 41
CASET == 42
RASET == 43
RAMWR == 44
COLMOD == 58
MADCTL == 54
PORCTRL == 178
GCTRL == 183
VCOMS == 187
LCMCTRL == 192
VDVVRHEN == 194
VRHS == 195
VDVS == 196
FRCTRL2 == 198
PWCTRL1 == 208
Landscape == 96
LandscapeSwapped == 160

\* Config::default()
config == [rgb |-> TRUE, inverted |-> TRUE, orientation |-> Landscape,
           height |-> 172, width |-> 320, dx |-> 0, dy |-> 34]

\* One spi.write with the D/C line as it stands when the write is made.
Write(dc, bytes) == [dc |-> dc, bytes |-> bytes]

\* What a driver operation does, in order: it drives the D/C pin or it writes
\* bytes to the bus. The driver calls nothing else on the bus.
SetDc(level) == <<"dc", level>>
SpiWrite(bytes) == <<"write", bytes>>
IsWrite(step) == step[1] = "write"

\* D/C raised before the instruction byte.
write_command_dc_high(instruction, params) ==
    <<SetDc(TRUE), SpiWrite(<<instruction>>)>>
    \o (IF params # <<>> THEN <<SetDc(TRUE), SpiWrite(params)>> ELSE <<>>)

\* write_command: D/C low and the instruction, then (if there are any) D/C
\* high and the parameters.
write_command(instruction, params) ==
    <<SetDc(FALSE), SpiWrite(<<instruction>>)>>
    \o (IF params # <<>> THEN <<SetDc(TRUE), SpiWrite(params)>> ELSE <<>>)

start_data == <<SetDc(TRUE)>>
write_data(data) == <<SpiWrite(data)>>

to_be_bytes(v) == <<v \div Byte, v % Byte>>

\* set_address_window: CASET and RASET, each followed by four data bytes.
set_address_window(sx, sy, ex, ey) ==
    write_command(CASET, <<>>)
    \o start_data
    \o write_data(to_be_bytes((sx + config.dx) % U16)
                  \o to_be_bytes((ex + config.dx) % U16))
    \o write_command(RASET, <<>>)
    \o start_data
    \o write_data(to_be_bytes((sy + config.dy) % U16)
                  \o to_be_bytes((ey + config.dy) % U16))

\* The steps are made one after the other, each write followed by `?`: the
\* write numbered fail (0: none) returns an error and ends the call there.
\* A write is logged with the level the D/C pin has when it is made: the one
\* set by the latest step before it that drove the pin, or the level the
\* call began with.
WriteSteps(steps) ==
    LET is_write(i) == IsWrite(steps[i])
    IN SelectSeq([i \in 1..Len(steps) |-> i], is_write)
LevelAt(steps, i, dc) ==
    LET driven == {j \in 1..(i - 1) : ~IsWrite(steps[j])}
    IN IF driven = {} THEN dc
       ELSE steps[CHOOSE j \in driven : \A k \in driven : k <= j][2]
Logged(steps, made, fail, sent, dc) ==
    LET at == WriteSteps(steps)
    IN sent \o [k \in 1..made |->
                   [w |-> Write(LevelAt(steps, at[k], dc), steps[at[k]][2]),
                    ok |-> Len(sent) + k # fail]]

\* Every write made, whatever the one before it returned.
spi_writes_unchecked(steps, fail, sent, dc) ==
    LET at == WriteSteps(steps)
    IN [bus |-> Logged(steps, Len(at), fail, sent, dc),
        dc |-> LevelAt(steps, Len(steps) + 1, dc),
        result |-> IF fail - Len(sent) \in 1..Len(at) THEN "Comm" ELSE "Ok"]

spi_writes(steps, fail, sent, dc) ==
    LET at == WriteSteps(steps)
        failed == fail - Len(sent) \in 1..Len(at)
        made == IF failed THEN fail - Len(sent) ELSE Len(at)
    IN [bus |-> Logged(steps, made, fail, sent, dc),
        dc |-> IF failed THEN LevelAt(steps, at[made], dc)
               ELSE LevelAt(steps, Len(steps) + 1, dc),
        result |-> IF failed THEN "Comm" ELSE "Ok"]

\* init's command table, in order.
InitCommands ==
    << <<SWRESET, <<>> >>, <<SLPOUT, <<>> >>,
       <<PORCTRL, <<12, 12, 0, 51, 51>> >>,
       <<MADCTL, IF config.rgb THEN <<0>> ELSE <<8>> >>,
       <<COLMOD, <<85>> >>, <<GCTRL, <<53>> >>, <<VCOMS, <<53>> >>,
       <<LCMCTRL, <<44>> >>, <<VDVVRHEN, <<1>> >>, <<VRHS, <<19>> >>,
       <<VDVS, <<32>> >>, <<FRCTRL2, <<15>> >>, <<PWCTRL1, <<164, 161>> >>,
       <<IF config.inverted THEN INVON ELSE INVOFF, <<>> >>,
       <<DISPON, <<>> >> >>

RECURSIVE CommandWrites(_)
CommandWrites(commands) ==
    IF commands = <<>> THEN <<>>
    ELSE write_command(Head(commands)[1], Head(commands)[2])
         \o CommandWrites(Tail(commands))

\* set_orientation's steps.
set_orientation(orientation) ==
    write_command(MADCTL, IF config.rgb THEN <<orientation>>
                          ELSE <<orientation + 8>>)

\* init: the command table, then the orientation of the configuration.
InitWrites == CommandWrites(InitCommands) \o set_orientation(drv_orientation)

\* What in the rest of the state a driver operation leaves alone.
DrvFrame ==
    UNCHANGED <<btnVars, chan, ctlVars, setVars, envVars, loopVars, lockVars,
                obsBtn, obsCtl, nGestures, lastInput, trail>>

\* A driver operation: its steps run from the pin's level, the log of the
\* bus begun anew.
DrvRun(steps, fail, call) ==
    LET r == spi_writes(steps, fail, <<>>, dc_pin)
    IN /\ bus' = r.bus
       /\ dc_pin' = r.dc
       /\ drv_result' = r.result
       /\ drv_call' = call

DrvInit(fail) ==
    /\ DrvRun(InitWrites, fail, [op |-> "init"])
    /\ UNCHANGED drv_orientation
    /\ DrvFrame

\* set_orientation stores the orientation once the command is written.
DrvSetOrientation(orientation, fail) ==
    /\ DrvRun(set_orientation(orientation), fail,
              [op |-> "set_orientation", orientation |-> orientation])
    /\ drv_orientation' = IF drv_result' = "Ok" THEN orientation
                          ELSE drv_orientation
    /\ DrvFrame

DrvSetAddressWindow(sx, sy, ex, ey, fail) ==
    /\ DrvRun(set_address_window(sx, sy, ex, ey), fail,
              [op |-> "set_address_window", x |-> sx, y |-> sy])
    /\ UNCHANGED drv_orientation
    /\ DrvFrame

\* fill_color: the whole panel as the window, then height / 2 writes of a
\* 1440-byte buffer of the colour, high byte first.
FILL_BUF_PIXELS == 720
FillBuffer(color) ==
    [k \in 1..(FILL_BUF_PIXELS * 2) |->
        IF k % 2 = 1 THEN color \div Byte ELSE color % Byte]
Repeat(step, n) == [i \in 1..n |-> step]
fill_color(color) ==
    set_address_window(0, 0, (config.width - 1) % U16,
                       (config.height - 1) % U16)
    \o write_command(RAMWR, <<>>)
    \o start_data
    \o Repeat(SpiWrite(FillBuffer(color)), config.height \div 2)

DrvFillColor(color, fail) ==
    /\ DrvRun(fill_color(color), fail, [op |-> "fill_color", color |-> color])
    /\ UNCHANGED drv_orientation
    /\ DrvFrame

\* write_area's window height: rows of MAX_DATA_LEN bits at this width.
WRITE_AREA_BUF_SIZE == 24 * 48 * 2
MAX_DATA_LEN == WRITE_AREA_BUF_SIZE \div 2
write_area_height(width, data) ==
    (MAX_DATA_LEN \div width) + (IF MAX_DATA_LEN % width > 0 THEN 1 ELSE 0)

\* Bit j from the least significant.
BitOfLsbFirst(byte, j) == (byte \div (2 ^ j)) % 2

\* Bit j (from the most significant) of a byte.
BitOf(byte, j) == (byte \div (2 ^ (7 - j))) % 2

\* The pixel bytes write_area sends: two per bit of the bitmap, high byte
\* first, foreground for a set bit.
PixelBytes(data, color, bg_color) ==
    [k \in 1..(Len(data) * 8 * 2) |->
        LET px == (k - 1) \div 2
            c == IF BitOf(data[(px \div 8) + 1], px % 8) # 0
                 THEN color ELSE bg_color
        IN IF (k - 1) % 2 = 0 THEN c \div Byte ELSE c % Byte]

write_area(x, y, width, data, color, bg_color) ==
    LET height == write_area_height(width, data)
    IN set_address_window(x, y, (x + width - 1) % U16,
                          (y + height - 1) % U16)
       \o write_command(RAMWR, <<>>)
       \o start_data
       \o <<SpiWrite(PixelBytes(data, color, bg_color))>>

DrvWriteArea(x, y, width, data, color, bg_color, fail) ==
    /\ DrvRun(write_area(x, y, width, data, color, bg_color), fail,
              [op |-> "write_area", x |-> x, y |-> y,
               width |-> width, len |-> Len(data), data |-> data,
               color |-> color, bg_color |-> bg_color])
    /\ UNCHANGED drv_orientation
    /\ DrvFrame

\* ================================================================ Init
NoTopics == [n \in {"page", "backlight", "direction", "ocp", "uvp", "pdo",
                    "output"} |-> <<>>]
NoDisp == [t |-> 0, g |-> "none"]
NoLongDisp == [t |-> 0, g |-> "none", role |-> "", other |-> "", otherT |-> 0,
               held |-> FALSE]

\* The state when controller_exec and btns_exec have been spawned, but for
\* the page and the capability table.
InitRest ==
    /\ now = BootTime
    /\ pin = [b \in Buttons |-> FALSE]
    /\ last_press_time = [b \in Buttons |-> InstantMIN]
    /\ last_release_time = [b \in Buttons |-> InstantMIN]
    /\ tickerDue = BootTime + TICK_PERIOD
    /\ edges = [b \in Buttons |-> 0]
    /\ chan = [b \in Buttons |-> <<>>]
    /\ btn_up_state = Released
    /\ btn_down_state = Released
    /\ up_last = TRUE
    /\ direction = "Normal"
    /\ backlight = BACKLIGHT_INIT
    /\ display_direction = "Normal"
    /\ ocp = 0
    /\ uvp = 0
    /\ pdo = "unset"
    /\ output = FALSE
    /\ topics = NoTopics
    /\ unread = [s \in Subscribers |-> <<>>]
    /\ missed = {}
    /\ pubHeld = [n \in DOMAIN NoTopics |-> {}]
    /\ panicked = FALSE
    /\ pressAt = [b \in Buttons |-> 0]
    /\ longCount = [b \in Buttons |-> 0]
    /\ prevRel = [b \in Buttons |-> NoRel]
    /\ qualRel = [b \in Buttons |-> NoQual]
    /\ sincePress = [b \in Buttons |-> <<>>]
    /\ longDisp = [b \in Buttons |-> NoLongDisp]
    /\ clickDisp = [b \in Buttons |-> NoDisp]
    /\ lastRecv = [b |-> "", k |-> "none", g |-> "none", n |-> 0]
    /\ inflight = [b \in Buttons |-> <<>>]
    /\ delivery_ok = TRUE
    /\ disp_page = PageMonitor
    /\ disp_direction = "Normal"
    /\ disp_output = FALSE
    /\ loop_pc = "output_controller"
    /\ ctrl_pin = FALSE
    /\ amps_sample = NoSample
    /\ power_info = [f \in PrimaryFields |-> 0]
    /\ blits = <<>>
    /\ panel = LaidOut(PageMonitor, [f \in PrimaryFields |-> 0])
    /\ lastRender = NoRender
    /\ bus = <<>>
    /\ drv_result = "none"
    /\ drv_call = [op |-> "none"]
    /\ dc_pin = FALSE
    /\ drv_orientation = config.orientation
    /\ owner = [m \in Mutexes |-> "free"]
    /\ ctl_pc = "idle"
    /\ ctl_job = NoGesture
    /\ main_pc = "top"
    /\ nGestures = 0
    /\ lastInput = NoGesture
    /\ trail = <<>>
    /\ status_info = StatusInfoDefault
    /\ disp_force_render = FALSE
    /\ ops = <<>>
    /\ lastTick = NoTick

InitBoot ==
    /\ InitRest
    /\ page = PageMonitor
    /\ selected_voltage = "_5v"
    /\ available = Range(VOLTAGE_ITEMS)

Init == InitBoot

Next ==
    \/ \E b \in Buttons : BtnEdge(b)
    \/ Tick
    \/ Advance
    \/ \E b \in Buttons : Receive(b)

Spec == Init /\ [][Next]_vars

\* ------------------------------------------ gestures, without the timing
\* Any gesture on any page, from boot: handle_input on its own.
NextGest ==
    /\ nGestures < MaxGestures
    /\ \E btns \in BtnsState : Dispatch(btns)

SpecGest == InitBoot /\ [][NextGest]_vars

\* Up and Down on the UVP page and on the OCP page (entered from
\* Setting(UVP) / Setting(OCP) with UpAndDown).
InitThr ==
    /\ InitRest
    /\ page \in {PageUVP, PageOCP}
    /\ selected_voltage = "_5v"
    /\ available = Range(VOLTAGE_ITEMS)

NextThr ==
    /\ nGestures < MaxAdjust
    /\ \E btns \in {"Up", "Down"} : Dispatch(btns)

SpecThr == InitThr /\ [][NextThr]_vars

\* Up and Down on the Voltage page (entered from Setting(Voltage) with
\* UpAndDown, which shows the stored selection), for every capability table
\* the discovery can have written and every stored selection.
InitVolt ==
    /\ InitRest
    /\ available \in SUBSET Range(VOLTAGE_ITEMS)
    /\ selected_voltage \in Range(VOLTAGE_ITEMS)
    /\ page = PageVoltage(selected_voltage)

NextVolt ==
    /\ nGestures < MaxGestures
    /\ \E btns \in {"Up", "Down"} : Dispatch(btns)

SpecVolt == InitVolt /\ [][NextVolt]_vars

\* Gestures from Setting(Voltage), for every capability table and every
\* stored selection: UpAndDown enters the Voltage page.
InitSet ==
    /\ InitRest
    /\ available \in SUBSET Range(VOLTAGE_ITEMS)
    /\ selected_voltage \in Range(VOLTAGE_ITEMS)
    /\ page = PageSetting("Voltage")

NextSet ==
    /\ nGestures < MaxGestures
    /\ \E btns \in {"Up", "Down", "UpAndDown"} : Dispatch(btns)

SpecSet == InitSet /\ [][NextSet]_vars

\* ------------------------------------- both buttons operated together
\* The two presses and two releases of a double-click.
DoubleClickEdges == 2 * 2

\* The user works both buttons together: during the first DoubleClickEdges
\* edges neither button gets more than one edge ahead of the other, and the
\* clock does not advance between an edge of one and the matching edge of
\* the other (they are less than 50 ms apart). Afterwards each button is
\* worked on its own. The edges are a finger's: two edges of one button are
\* never in the same instant.
LastEdgeAt(b) == IF pin[b] THEN pressAt[b] ELSE prevRel[b].at
Level ==
    \/ edges["A"] = edges["B"]
    \/ \A b \in Buttons : edges[b] >= DoubleClickEdges

EdgeTogether(b) ==
    /\ edges[b] < DoubleClickEdges => edges[b] <= edges[Other(b)]
    /\ LastEdgeAt(b) < now
    /\ Edge(b, MaxEdgesTogether)

AdvanceTogether == Level /\ Clock(MaxStepsTogether)

NextTogether ==
    \/ \E b \in Buttons : EdgeTogether(b)
    \/ Tick
    \/ AdvanceTogether
    \/ \E b \in Buttons : Receive(b)

SpecTogether == Init /\ [][NextTogether]_vars

\* ------------------------------------------- the primary fields' rendering
\* The readings shown (thousandths): 12.34 and 12.35, values shorter and
\* longer than five characters, and the 0.0 of the defaults.
Readings == {0, 5, 5000, 9990, 12340, 12350, 12345, 99999999}

NextRender ==
    \/ \E field \in PrimaryFields, reading \in Readings :
            UpdateReading(field, reading)
    \/ \E field \in PrimaryFields : RedrawField(field)

SpecRender == Init /\ [][NextRender]_vars

\* --------------------------------------------------------- the driver alone
\* The calls display.rs makes: a 16x24 status glyph (48 bytes) or a 24x48
\* primary glyph (144 bytes), at the places of the Monitor layout, in a few
\* bit patterns and colours; any one of the call's writes may fail.
GlyphShapes == {<<16, 48>>, <<24, 144>>}
GlyphFills == {0, 193}
GlyphColors == {2016, 65535}
AreaXs == {14, 240}
AreaYs == {6}
MaxWrites == 28
\* fill_color makes 5 + 86 writes: none fails, or one of the window's, the
\* memory-write command, or the first or the last of the buffers.
FillFails == {0, 2, 5, 6, 91}
\* The background each of these colours is drawn on: one of them a colour
\* whose two bytes differ, as text drawn on a highlighted row is.
BackgroundOf(color) == IF color = 2016 THEN 31 ELSE 0

NextDrv ==
    \/ \E fail \in 0..MaxWrites : DrvInit(fail)
    \/ \E x \in AreaXs, y \in AreaYs, shape \in GlyphShapes,
          fill \in GlyphFills, color \in GlyphColors, fail \in 0..6 :
            DrvWriteArea(x, y, shape[1], [i \in 1..shape[2] |-> fill],
                         color, BackgroundOf(color), fail)
    \/ \E orientation \in {Landscape, LandscapeSwapped}, fail \in 0..2 :
            DrvSetOrientation(orientation, fail)
    \/ \E x \in AreaXs, fail \in 0..4 :
            DrvSetAddressWindow(x, 0, x + 15, 23, fail)
    \/ \E fail \in FillFails : DrvFillColor(0, fail)

SpecDrv == Init /\ [][NextDrv]_vars

\* ------------------------------------------------ a coordinator that lags
\* The tasks are scheduled cooperatively and nothing bounds the time until
\* the coordinator is polled: here the clock advances whatever is queued, and
\* button A makes enough edges to fill its queue.
MaxEdgesLag == 11
MaxStepsLag == 2

ClockLag ==
    /\ ~panicked
    /\ (now - BootTime) \div TimeStep < MaxStepsLag
    /\ now' = now + TimeStep
    /\ UNCHANGED <<edges, pin, last_press_time, last_release_time, tickerDue,
                   chan, ctlVars, setVars, envVars, loopVars, drvVars, lockVars, obsBtn,
                   obsCtl, nGestures,
                   lastInput, trail>>

NextLag ==
    \/ Edge("A", MaxEdgesLag)
    \/ Edge("B", MaxEdges)
    \/ Tick
    \/ ClockLag
    \/ \E b \in Buttons : Receive(b)

SpecLag == Init /\ [][NextLag]_vars

\* ------------------------------------------------- main's loop and gestures
\* The loop runs while gestures are handled, from boot (threshold 0.0): the
\* current is 0, 0.25 A or 2 A, the other readings 0 or 5.
MaxGesturesLoop == 2
LoopSamples == {0, 1, 8}
LoopReadings == {0, 5000}

NextLoop ==
    \/ /\ nGestures < MaxGesturesLoop
       /\ \E btns \in BtnsState : Dispatch(btns)
    \/ Loop(LoopSamples, LoopReadings)

SpecLoop == Init /\ [][NextLoop]_vars

\* ------------------------------------------ the loop, scheduled fairly
\* The gestures that publish a page, a direction or an output flag (and Up,
\* which moves within the settings), a few of them; the loop keeps running:
\* every wait of an iteration ends (bus transfers, uncontended locks), so the
\* executor polls it again and again.
MaxGesturesFair == 4
FairGestures == {"Up", "UpDbk", "UpAndDown", "UpAndDownLong"}

NextFair ==
    \/ /\ nGestures < MaxGesturesFair
       /\ \E btns \in FairGestures : Dispatch(btns)
    \/ Loop({0}, {0})

SpecFair == Init /\ [][NextFair]_vars /\ WF_vars(Loop({0}, {0}))

\* ------------------------------------------------------------- SpecCycle
\* The settings menu walked with Up and Down from any of its items, every
\* gesture followed in the trail.
MaxGesturesCycle == 5

InitCycle ==
    /\ InitRest
    /\ \E item \in Range(SETTING_ITEMS) : page = PageSetting(item)
    /\ selected_voltage = "_5v"
    /\ available = Range(VOLTAGE_ITEMS)

NextCycle ==
    /\ nGestures < MaxGesturesCycle
    /\ \E btns \in {"Up", "Down"} : Track(btns)

SpecCycle == InitCycle /\ [][NextCycle]_vars

\* ------------------------------------------------------------ SpecCommit
\* The Voltage page and the way back to it, for every capability table and
\* every stored selection: cycling with Up and Down, committing with
\* UpAndDown and UpAndDownLong.
InitCommit ==
    /\ InitRest
    /\ available \in SUBSET Range(VOLTAGE_ITEMS)
    /\ selected_voltage \in Range(VOLTAGE_ITEMS)
    /\ page = PageVoltage(selected_voltage)

NextCommit ==
    /\ nGestures < MaxGestures
    /\ \E btns \in {"Up", "Down", "UpAndDown", "UpAndDownLong"} : Dispatch(btns)

SpecCommit == InitCommit /\ [][NextCommit]_vars

\* --------------------------------------------------------------- SpecTick
\* The renderer on its own, after main's display.init(): Display::task with
\* any message of each topic (or none), the secondary fields updated with a
\* few values, and the bus failing at some operation of a call (0: never).
TickPages == {PageMonitor, PageSetting("UVP"), PageUVP}
StatusValues == {0, 5000}
Faults == {0, 1, 30}
Option(S) == {<<>>} \cup {<<m>> : m \in S}

NextTick ==
    \/ \E dmsg \in Option({"Normal", "Reversed"}), pmsg \in Option(TickPages),
          omsg \in Option(BOOLEAN), fault \in Faults :
            DisplayTask(dmsg, pmsg, omsg, fault)
    \/ \E field \in SecondaryFields, v \in StatusValues, fault \in Faults :
            UpdateStatus(field, v, fault)

SpecTick == Init /\ [][NextTick]_vars

\* --------------------------------------------------------------- SpecMenu
\* The two menus laid out for every selection, with every capability table.
InitMenu ==
    /\ InitRest
    /\ available \in SUBSET Range(VOLTAGE_ITEMS)
    /\ selected_voltage = "_5v"
    /\ page = PageMonitor

NextMenu ==
    \/ \E setting_item \in Range(SETTING_ITEMS) : UpdateSettingLayout(setting_item)
    \/ \E selected \in Range(VOLTAGE_ITEMS) : UpdateVoltageLayout(selected)

SpecMenu == InitMenu /\ [][NextMenu]_vars

\* ------------------------------------- a coordinator that keeps up, longer
\* The coordinator takes each event before the next edge or poll, so that
\* runs are long enough for events to follow a dispatched gesture: further
\* clicks, bounces, long presses and changes of direction.
MaxEdgesAgain == 6
MaxEdgesOther == 4
MaxStepsAgain == 8

Drained == \A b \in Buttons : chan[b] = <<>>

NextAgain ==
    \/ Drained /\ Edge("A", MaxEdgesAgain)
    \/ Drained /\ Edge("B", MaxEdgesOther)
    \/ Drained /\ Tick
    \/ Clock(MaxStepsAgain)
    \/ \E b \in Buttons : Receive(b)

SpecAgain == Init /\ [][NextAgain]_vars

\* ------------------------------------------------------- the shared locks
\* handle_input and main's loop as the sequences of lock acquisitions,
\* stretches of work and releases the code makes. An acquisition is a step
\* of its own, taken when the mutex is free: `lock().await` suspends the
\* task until then.

\* The mutex an arm of handle_input locks besides PAGE_MUTEX, and whether the
\* page guard is still held at that point.
LockPlan(pg, btns) ==
    CASE pg.p = "Monitor" /\ btns \in {"Up", "Down", "DownLong"} ->
            [lock |-> "backlight", page_held |-> TRUE]
      [] pg.p = "Monitor" /\ btns \in {"UpDbk", "DownDbk"} ->
            [lock |-> "direction", page_held |-> TRUE]
      [] pg.p = "Monitor" /\ btns = "UpAndDownLong" ->
            [lock |-> "output", page_held |-> TRUE]
      [] pg.p = "Monitor" -> [lock |-> "none", page_held |-> TRUE]
      [] pg = PageSetting("Voltage") /\ btns = "UpAndDown" ->
            [lock |-> "selected_voltage", page_held |-> TRUE]
      [] pg.p = "Voltage" /\ btns \in {"Up", "Down"} ->
            [lock |-> "available", page_held |-> TRUE]
      [] pg.p = "Voltage" /\ btns \in {"UpAndDown", "UpAndDownLong"} ->
            [lock |-> "pdo", page_held |-> FALSE]
      [] pg.p = "UVP" /\ btns \in {"Up", "Down"} ->
            [lock |-> "uvp", page_held |-> TRUE]
      [] pg.p = "OCP" /\ btns \in {"Up", "Down"} ->
            [lock |-> "ocp", page_held |-> TRUE]
      [] pg.p # "Monitor" /\ btns \in {"UpDbk", "DownDbk"} ->
            [lock |-> "direction", page_held |-> TRUE]
      [] OTHER -> [lock |-> "none", page_held |-> TRUE]

\* The guards of a task dropped, all but the one on OCP_MUTEX.
unlock_but_ocp(own, task) ==
    [m \in Mutexes |-> IF own[m] = task /\ m # "ocp" THEN "free" ELSE own[m]]

\* The guards of a task dropped.
unlock_all(own, task) ==
    [m \in Mutexes |-> IF own[m] = task THEN "free" ELSE own[m]]

LockFrame ==
    UNCHANGED <<btnVars, chan, ctlVars, setVars, envVars, loopVars, drvVars,
                obsBtn, obsCtl, nGestures, lastInput, trail>>

\* Controller::task calls handle_input(btns).
CtlStart(btns, budget) ==
    /\ ~panicked
    /\ ctl_pc = "idle"
    /\ nGestures < budget
    /\ ctl_pc' = "page"
    /\ ctl_job' = btns
    /\ UNCHANGED <<owner, main_pc>>
    /\ LockFrame

\* PAGE_MUTEX.lock().await
CtlLockPage ==
    /\ ctl_pc = "page"
    /\ owner["page"] = "free"
    /\ owner' = [owner EXCEPT !["page"] = "ctl"]
    /\ ctl_pc' = "setting"
    /\ UNCHANGED <<ctl_job, main_pc>>
    /\ LockFrame

\* The arm's own lock().await.
CtlLockSetting ==
    LET plan == LockPlan(page, ctl_job)
    IN /\ ctl_pc = "setting"
       /\ plan.lock # "none"
       /\ owner[plan.lock] = "free"
       /\ owner' = [owner EXCEPT ![plan.lock] = "ctl",
                                 !["page"] = IF plan.page_held THEN "ctl"
                                             ELSE "free"]
       /\ ctl_pc' = "update"
       /\ UNCHANGED <<ctl_job, main_pc>>
       /\ LockFrame

\* The rest of the arm: the new values, the publishes, and every guard
\* dropped by the end of handle_input.
CtlFinish ==
    /\ ~panicked
    /\ \/ ctl_pc = "update"
       \/ ctl_pc = "setting" /\ LockPlan(page, ctl_job).lock = "none"
    /\ nGestures' = nGestures + 1
    /\ lastInput' = ctl_job
    /\ handle_input(ctl_job)
    /\ owner' = unlock_all(owner, "ctl")
    /\ ctl_pc' = "idle"
    /\ UNCHANGED <<ctl_job, main_pc>>
    /\ UNCHANGED <<btnVars, chan, ctlVars, envVars, loopVars, drvVars, obsBtn,
                   obsCtl, trail>>

\* Whether the step the loop stands at lays out the Voltage page, which
\* locks AVAILABLE_VOLT_CURR_MUTEX (update_voltage_layout): a direction
\* message while the Voltage page is shown, or a page message for it.
LayoutNeedsTable ==
    \/ /\ loop_pc = "direction"
       /\ unread["direction_sub"] # <<>>
       /\ disp_page.p = "Voltage"
    \/ /\ loop_pc = "page"
       /\ unread["page_sub"] # <<>>
       /\ Head(unread["page_sub"]).p = "Voltage"

\* `let mut display = DISPLAY.lock().await` at the top of the loop.
MainLockDisplay ==
    /\ ~panicked
    /\ main_pc = "top"
    /\ owner["display"] = "free"
    /\ owner' = [owner EXCEPT !["display"] = "main"]
    /\ main_pc' = "run"
    /\ UNCHANGED <<ctl_pc, ctl_job>>
    /\ LockFrame

\* update_voltage_layout's lock().await, and the guard dropped at its end.
MainLockAvailable ==
    /\ ~panicked
    /\ main_pc = "run"
    /\ LayoutNeedsTable
    /\ owner["available"] = "free"
    /\ owner' = [owner EXCEPT !["available"] = "main"]
    /\ main_pc' = loop_pc
    /\ UNCHANGED <<ctl_pc, ctl_job>>
    /\ LockFrame

MainUnlockAvailable ==
    /\ main_pc \in {"direction", "page"}
    /\ loop_pc # main_pc
    /\ owner' = [owner EXCEPT !["available"] = "free"]
    /\ main_pc' = "run"
    /\ UNCHANGED <<ctl_pc, ctl_job>>
    /\ LockFrame

\* `let ocp_guard = OCP_MUTEX.lock().await` before the current is read.
MainLockOcp ==
    /\ ~panicked
    /\ main_pc = "run"
    /\ loop_pc = "amps"
    /\ owner["ocp"] = "free"
    /\ owner' = [owner EXCEPT !["ocp"] = "main"]
    /\ UNCHANGED <<ctl_pc, ctl_job, main_pc>>
    /\ LockFrame

\* The end of the iteration (or its `continue`): ocp_guard and display go
\* out of scope.
IterationDone ==
    main_pc = "run" /\ loop_pc = "output_controller" /\ owner["ocp"] = "main"
MainRelease ==
    /\ IterationDone
    /\ owner' = unlock_all(owner, "main")
    /\ main_pc' = "top"
    /\ UNCHANGED <<ctl_pc, ctl_job>>
    /\ LockFrame

\* A stretch of the loop between two suspension points, with the guards it
\* needs.
MainStep ==
    /\ \/ /\ main_pc = "run"
          /\ ~LayoutNeedsTable
          /\ loop_pc = "amps" => owner["ocp"] = "main"
          /\ ~IterationDone
       \/ main_pc = loop_pc
    /\ Loop({0}, {0})

MainTask ==
    \/ MainLockDisplay
    \/ MainLockAvailable
    \/ MainUnlockAvailable
    \/ MainLockOcp
    \/ MainRelease
    \/ MainStep

\* The gestures made: those that lead from Monitor to the Voltage page and
\* to the OCP page, and Up there.
MaxGesturesLocks == 5
LockGestures(pg) ==
    CASE pg = PageMonitor -> {"UpAndDown"}
      [] pg = PageSetting("Voltage") -> {"Up", "UpAndDown"}
      [] pg = PageSetting("UVP") -> {"Up"}
      [] pg = PageSetting("OCP") -> {"UpAndDown"}
      [] OTHER -> {"Up"}

NextLocks ==
    \/ \E btns \in LockGestures(page) : CtlStart(btns, MaxGesturesLocks)
    \/ CtlLockPage
    \/ CtlLockSetting
    \/ CtlFinish
    \/ MainTask

SpecLocks == Init /\ [][NextLocks]_vars

\* Scheduling: the executor polls every task that is ready, so neither task
\* stops while it has a step; a task suspended in lock() is woken when the
\* guard is dropped, and the task that dropped it suspends (main in a bus
\* wait, the coordinator on its empty queues) before it locks again, so the
\* woken task finds the mutex free: an acquisition that is possible again
\* and again is made.
SpecLocksFair ==
    /\ SpecLocks
    /\ WF_vars(MainTask)
    /\ WF_vars(CtlLockPage \/ CtlFinish)
    /\ SF_vars(CtlLockSetting)
    /\ SF_vars(MainLockOcp)
    /\ SF_vars(MainLockAvailable)

\* ------------------------------------- the primary fields and the panel
\* Main's loop shows readings of different lengths (5.0, 12.34, 12.35, the
\* error value) while gestures change the page and the direction.
MaxGesturesPanel == 3
PanelGestures == {"UpDbk", "UpAndDown", "UpAndDownLong"}
PanelReadings == {5000, 12340, 12350}

NextPanel ==
    \/ /\ nGestures < MaxGesturesPanel
       /\ \E btns \in PanelGestures : Dispatch(btns)
    \/ Loop({0}, PanelReadings)

SpecPanel == Init /\ [][NextPanel]_vars

\* ------------------------------------------------ the clock in finer steps
\* Steps of 25 ms, so that a LongPressed can come more than 200 ms and a
\* release less than 300 ms after a Click: button A clicks, bounces and
\* clicks again while an edge of button B moves the polls off the grid.
FineStep == 25
MaxEdgesFine == 6
MaxEdgesFineOther == 1
MaxStepsFine == 13

ClockFine ==
    /\ ~panicked
    /\ Drained
    /\ now < tickerDue
    /\ (now - BootTime) \div FineStep < MaxStepsFine
    /\ now' = now + FineStep
    /\ UNCHANGED <<edges, pin, last_press_time, last_release_time, tickerDue,
                   chan, ctlVars, setVars, envVars, loopVars, drvVars,
                   lockVars, obsBtn, obsCtl, nGestures, lastInput, trail>>

NextFine ==
    \/ Drained /\ Edge("A", MaxEdgesFine)
    \/ Drained /\ Edge("B", MaxEdgesFineOther)
    \/ Tick
    \/ ClockFine
    \/ \E b \in Buttons : Receive(b)

SpecFine == Init /\ [][NextFine]_vars


\* ================================================================ claims

\* C1: a release less than 50 ms after its press sends Released (never Click
\* or DoubleClick) and leaves last_release_time as it was.
C1_BounceReleased ==
    \A b \in Buttons :
        prevRel[b].kind = "bounce" =>
            /\ prevRel[b].emit = "Released"
            /\ prevRel[b].lrKept

C1_Witness ==
    \E b \in Buttons :
        /\ prevRel[b].kind = "bounce"
        /\ prevRel[b].emit = "Released"
        /\ last_release_time[b] # InstantMIN

\* C2 as stated: of two consecutive releases that each end a press of at
\* least 50 ms, the second sends DoubleClick when it is less than 300 ms
\* after the first, and Click otherwise.
C2_Original ==
    \A b \in Buttons :
        prevRel[b].pair \in {"orig", "ok"} =>
            prevRel[b].emit = IF prevRel[b].within THEN "DoubleClick" ELSE "Click"

\* C2 amended: the same, for two presses for neither of which a LongPressed
\* was sent.
C2_PairWithoutLong ==
    \A b \in Buttons :
        prevRel[b].pair = "ok" =>
            prevRel[b].emit = IF prevRel[b].within THEN "DoubleClick" ELSE "Click"

C2_Witness ==
    /\ prevRel["A"].pair = "ok" /\ prevRel["A"].within
    /\ prevRel["A"].emit = "DoubleClick"
    /\ prevRel["B"].pair = "ok" /\ ~prevRel["B"].within
    /\ prevRel["B"].emit = "Click"

\* C3 (never a second one): at most one LongPressed is sent between two
\* presses of a button.
C3_AtMostOneLong ==
    \A b \in Buttons : longCount[b] <= 1

\* C3: a press held for at least 200 ms sends exactly one LongPressed before
\* the next press: never a second one, and, the poll running every 100 ms,
\* one has been sent once the press is held for more than 200 ms + 100 ms
\* (and no poll is due at this very instant).
C3_ExactlyOneLong ==
    \A b \in Buttons :
        /\ longCount[b] <= 1
        /\ (pin[b] /\ pressAt[b] # 0 /\ now < tickerDue
                /\ now - pressAt[b] > SHORT_PRESS_DURATION + TICK_PERIOD)
            => longCount[b] = 1

\* ---------------------------------------------- coordinator observers
\* Both buttons have sent a LongPressed (Click) and the coordinator has taken
\* both; Near: the two timestamps differ by less than 100 ms.
BothLongTaken ==
    \A b \in Buttons : longDisp[b].t # 0 /\ longDisp[b].g # "pending"
BothClickTaken ==
    \A b \in Buttons : clickDisp[b].t # 0 /\ clickDisp[b].g # "pending"
NearLong ==
    instant_diff(longDisp["A"].t, longDisp["B"].t) < MAX_SIMULTANEOUS_PRESS_DELAY
NearClick ==
    instant_diff(clickDisp["A"].t, clickDisp["B"].t) < MAX_SIMULTANEOUS_PRESS_DELAY
\* Of the two events, one led to the compound gesture c and the other to no
\* dispatch at all.
OnlyCompound(disp, c) ==
    \E b \in Buttons : disp[b].g = c /\ disp[Other(b)].g = NoGesture

\* C4: two LongPressed less than 100 ms apart lead to exactly one
\* UpAndDownLong and to no UpLong or DownLong, whatever the order in which
\* the two channels are drained.
C4_NearLongOnlyCompound ==
    (BothLongTaken /\ NearLong) => OnlyCompound(longDisp, "UpAndDownLong")

\* C5 as stated: two LongPressed 100 ms or more apart lead to one UpLong and
\* one DownLong, one per event.
C5_Original ==
    (BothLongTaken /\ ~NearLong) =>
        {longDisp[b].g : b \in Buttons} = {"UpLong", "DownLong"}

\* The coordinator has taken a LongPressed of button b, and the other
\* logical button's state at its arrival was not a LongPressed less than
\* 100 ms from it.
LongTakenFar(b) ==
    /\ longDisp[b].t # 0 /\ longDisp[b].g # "pending"
    /\ ~ (/\ longDisp[b].other = "LongPressed"
          /\ instant_diff(longDisp[b].t, longDisp[b].otherT)
                < MAX_SIMULTANEOUS_PRESS_DELAY)

\* C5 amended: a LongPressed 100 ms or more from the other logical button's
\* LongPressed never leads to UpAndDownLong; it leads to the single long
\* gesture of its logical button when the other logical button's state at
\* its arrival is neither Pressed nor LongPressed, and to no dispatch
\* otherwise.
C5_FarLongSingles ==
    \A b \in Buttons :
        LongTakenFar(b) =>
            longDisp[b].g =
                IF longDisp[b].other \in {"Pressed", "LongPressed"} THEN NoGesture
                ELSE IF longDisp[b].role = "Up" THEN "UpLong" ELSE "DownLong"

C5_Witness ==
    /\ BothLongTaken /\ ~NearLong
    /\ \A b \in Buttons : LongTakenFar(b)
    /\ {longDisp[b].g : b \in Buttons} = {"UpLong", "DownLong"}

C5_WitnessBlocked ==
    /\ BothLongTaken /\ ~NearLong
    /\ \A b \in Buttons : LongTakenFar(b) /\ longDisp[b].g = NoGesture

\* C6: two Clicks less than 100 ms apart lead to UpAndDown only: no single
\* Up or Down is dispatched for either.
C6_NearClickOnlyCompound ==
    (BothClickTaken /\ NearClick) => OnlyCompound(clickDisp, "UpAndDown")

\* The values waiting on topic name's queue: the latest ones published.
Published(name) == Range(topics[name])

\* C7: the direction the coordinator maps the buttons with is the global
\* Direction, so A drives Up exactly when the global Direction is Normal.
C7_DirectionAgrees ==
    /\ direction = display_direction
    /\ DrivesUp("A", direction) <=> (display_direction = "Normal")
    /\ DrivesUp("B", direction) <=> (display_direction = "Reversed")

\* C8: the backlight level and every value published on the backlight topic
\* are in 0..10, in the initial state and after any gestures.
C8_BacklightInRange ==
    /\ backlight \in 0..10
    /\ Published("backlight") \subseteq 0..10

\* C9: the UVP and OCP thresholds and every value published on their topics
\* are within [0, 10] (in quarters: 0..40); an Up at 10 leaves 10.
C9_ThresholdsInRange ==
    /\ uvp \in 0..OCP_MAX
    /\ ocp \in 0..OCP_MAX
    /\ Published("uvp") \subseteq 0..OCP_MAX
    /\ Published("ocp") \subseteq 0..OCP_MAX

\* C10: on the Voltage page Up and Down never fail, and the selection they
\* yield has its current present in the capability table.
C10_CyclingNeverFails ==
    /\ ~panicked
    /\ (page.p = "Voltage" /\ nGestures > 0) => page.a \in available

\* The first available entry of the capability table, in table order.
FirstAvailable == get_available_voltages[1]

\* C11: UpAndDown on Setting(Voltage) enters Voltage(v) with v in the
\* capability table: the stored selection when the table contains it, and
\* the first available entry otherwise.
C11_EntersAvailable ==
    [][(page = PageSetting("Voltage") /\ page'.p = "Voltage") =>
          /\ page'.a \in available
          /\ page'.a = IF selected_voltage \in available
                       THEN selected_voltage ELSE FirstAvailable]_vars

\* Both buttons have made exactly the edges of a double-click since boot, the
\* second release of each sent DoubleClick, and the coordinator has taken
\* every event.
BothDoubleClicked ==
    /\ Drained
    /\ \A b \in Buttons :
        edges[b] = DoubleClickEdges /\ prevRel[b].emit = "DoubleClick"

\* After the double-click of both, button b alone has made one more press
\* and release, which sent Click, and b drives logical Up.
UpClickedAfter(b) ==
    /\ Drained
    /\ edges[b] = DoubleClickEdges + 2
    /\ prevRel[b].emit = "Click" /\ prevRel[b].prevEmit = "DoubleClick"
    /\ edges[Other(b)] = DoubleClickEdges
    /\ prevRel[Other(b)].emit = "DoubleClick"
    /\ DrivesUp(b, direction)

\* C12: from boot, a double-click of both buttons together makes the page
\* Setting(Voltage), and a following single click of Up makes it
\* Setting(UVP).
C12_BootScenario ==
    /\ BothDoubleClicked => page = PageSetting("Voltage")
    /\ \A b \in Buttons : UpClickedAfter(b) => page = PageSetting("UVP")

C12_Witness ==
    \E b \in Buttons : UpClickedAfter(b) /\ page = PageSetting("UVP")

C12_WitnessDouble == BothDoubleClicked /\ page = PageSetting("Voltage")

\* The columns the latest render_monitor re-blitted, and those at which its
\* two strings differ (a column past the end of one string only differs).
BlittedColumns == {blits[i].idx : i \in 1..Len(blits)}
DifferingColumns ==
    {idx \in Range(PrimaryColumns) :
        CharAt(lastRender.curr, idx) # CharAt(lastRender.prev, idx)}

\* C13: a primary field's update re-blits exactly the columns at which the
\* formatted new value and the formatted previous value differ, each once,
\* and all five columns under a force-redraw.
C13_BlitsTheDifference ==
    lastRender # NoRender =>
        /\ Len(blits) = Cardinality(BlittedColumns)
        /\ BlittedColumns = IF lastRender.force THEN Range(PrimaryColumns)
                            ELSE DifferingColumns

\* 12.34 then 12.35: one column, the last.
C13_Witness ==
    /\ lastRender.curr = ryu_format(12350)
    /\ lastRender.prev = ryu_format(12340)
    /\ ~lastRender.force
    /\ BlittedColumns = {4}

C13_WitnessSame ==
    /\ lastRender # NoRender /\ ~lastRender.force
    /\ lastRender.curr = lastRender.prev /\ blits = <<>>

\* The address window the bus carried: the data writes after CASET and RASET,
\* read back as big-endian words less the panel offsets.
FromBe(bytes, i) == bytes[i] * Byte + bytes[i + 1]
WindowSent ==
    [sx |-> FromBe(bus[2].w.bytes, 1) - config.dx,
     ex |-> FromBe(bus[2].w.bytes, 3) - config.dx,
     sy |-> FromBe(bus[4].w.bytes, 1) - config.dy,
     ey |-> FromBe(bus[4].w.bytes, 3) - config.dy]
WindowWritten ==
    /\ drv_call.op = "write_area"
    /\ Len(bus) >= 4 /\ bus[4].ok
CeilDiv(a, b) == (a + b - 1) \div b

\* C14: write_area(x, y, width, bitmap) sets the window
\* (x, y, x + width - 1, y + h - 1) with h = ceil(8 * len / width).
C14_WindowFitsBitmap ==
    WindowWritten =>
        WindowSent = [sx |-> drv_call.x, sy |-> drv_call.y,
                      ex |-> drv_call.x + drv_call.width - 1,
                      ey |-> drv_call.y
                             + CeilDiv(8 * drv_call.len, drv_call.width) - 1]

\* The instructions the bus carried (the writes made with D/C low), and the
\* instructions of a whole init.
RECURSIVE InstructionsOf(_)
InstructionsOf(log) ==
    IF log = <<>> THEN <<>>
    ELSE (IF Head(log).w.dc THEN <<>> ELSE <<Head(log).w.bytes[1]>>)
         \o InstructionsOf(Tail(log))
InitInstructions ==
    [i \in 1..Len(InitCommands) |-> InitCommands[i][1]] \o <<MADCTL>>
FailedWrites == {i \in 1..Len(bus) : ~bus[i].ok}

\* C20: when a bus write fails during init, init returns the communication
\* error with that write the last one made; it returns success only when
\* every command of the sequence was written.
C20_InitStopsAtFailure ==
    drv_call.op = "init" =>
        /\ drv_result \in {"Ok", "Comm"}
        /\ drv_result = "Comm" <=> FailedWrites # {}
        /\ FailedWrites \subseteq {Len(bus)}
        /\ drv_result = "Ok" =>
                /\ InstructionsOf(bus) = InitInstructions
                /\ Len(bus) = Len(SelectSeq(InitWrites, IsWrite))

\* The parameters of PORCTRL fail: four writes were made, nothing after.
C20_Witness ==
    /\ drv_call.op = "init" /\ drv_result = "Comm"
    /\ Len(bus) = 4 /\ ~bus[4].ok /\ bus[3].w.bytes = <<PORCTRL>>

C20_WitnessOk ==
    /\ drv_call.op = "init" /\ drv_result = "Ok" /\ Len(bus) = MaxWrites

TerminalKinds == {"Click", "DoubleClick", "LongPressed"}
TerminalsIn(h) == {i \in 1..Len(h) : h[i] \in TerminalKinds}

\* C15: in a button's queue every Click, DoubleClick and LongPressed comes
\* after the Pressed of its press with no other terminal gesture between
\* the two, so LongPressed is sent at most once per press.
C15_TerminalAfterPressed ==
    \A b \in Buttons :
        /\ Cardinality(TerminalsIn(sincePress[b])) <= 1
        /\ TerminalsIn(sincePress[b]) # {} => sincePress[b][1] = "Pressed"

\* A long press and its release; a click.
C15_Witness ==
    \E b \in Buttons :
        sincePress[b] = <<"Pressed", "LongPressed", "Released">>

C15_WitnessClick ==
    \E b \in Buttons : sincePress[b] = <<"Pressed", "Click">>

C16_WitnessDrained ==
    /\ edges["A"] = MaxEdgesLag /\ edges["B"] = MaxEdges
    /\ \A b \in Buttons : chan[b] = <<>>

\* C19: a loop iteration whose current sample exceeds the threshold leaves
\* the actuator off, whatever message the iteration consumed before, and the
\* actuator is switched on again only by consuming a later message `true`.
C19_TripSwitchesOff ==
    [][/\ (loop_pc = "amps" /\ loop_pc' = "watts"
              /\ amps_sample'.val > amps_sample'.ocp) => ~ctrl_pin'
       /\ (ctrl_pin' /\ ~ctrl_pin) =>
              /\ loop_pc = "output_controller"
              /\ unread["ctrl_output_sub"] # <<>>
              /\ Head(unread["ctrl_output_sub"]) = TRUE]_vars


\* The iteration consumed the message `true`, switched the actuator on, and
\* the sample then switched it off.
C19_Witness ==
    /\ loop_pc = "watts"
    /\ amps_sample.val > amps_sample.ocp
    /\ ~ctrl_pin /\ output /\ disp_output
    /\ unread["ctrl_output_sub"] = <<>>

\* Switched on again by a later message.
C19_WitnessOnAgain ==
    /\ amps_sample.val > amps_sample.ocp
    /\ ctrl_pin /\ loop_pc = "direction"

\* C17: a publish is never refused and never waits (a subscriber holds at
\* most two unread messages, the oldest giving way), and once the coordinator
\* has stopped publishing the renderer's page, direction and output flag
\* become, and stay, the last values published.
RendererAgrees ==
    /\ disp_page = page
    /\ disp_direction = display_direction
    /\ disp_output = output
C17_RendererCatchesUp ==
    /\ [](\A s \in Subscribers : Len(unread[s]) <= PUBSUB_CAP)
    /\ <>[]RendererAgrees

\* The renderer lost a page message unread, and agrees all the same once
\* every gesture was handled and every message read.
C17_Witness ==
    /\ "page_sub" \in missed
    /\ nGestures = MaxGesturesFair
    /\ \A s \in Subscribers : unread[s] = <<>>
    /\ RendererAgrees
    /\ page # PageMonitor

\* C18: at every publish the lock of the setting published has been
\* released.
C18_LockReleasedBeforePublish ==
    \A n \in DOMAIN pubHeld : n \notin pubHeld[n]


\* C22: a press released within 50 ms is discarded: no LongPressed is sent
\* for it afterwards (in a queue, from a Pressed on, no LongPressed follows
\* the Released of a bounce).
C22_BounceNeverLong ==
    \A b \in Buttons :
        \A i, j \in 1..Len(sincePress[b]) :
            ~ (/\ i < j
               /\ sincePress[b][i] = "Released"
               /\ sincePress[b][j] = "LongPressed"
               /\ prevRel[b].kind = "bounce")

\* The kind of event each single-button gesture stands for.
SingleKind ==
    [Up |-> "Click", UpLong |-> "LongPressed", UpDbk |-> "DoubleClick",
     Down |-> "Click", DownLong |-> "LongPressed", DownDbk |-> "DoubleClick"]

\* C23: a single-button gesture is dispatched only for the logical button
\* that produced the event just received, for the kind of that event, and
\* only when neither logical state is Pressed and the other button's state
\* is not LongPressed.
C23_SingleGestureGuarded ==
    lastRecv.g \in DOMAIN SingleKind =>
        LET forUp == lastRecv.g \in {"Up", "UpLong", "UpDbk"}
            own == IF forUp THEN btn_up_state ELSE btn_down_state
            other == IF forUp THEN btn_down_state ELSE btn_up_state
        IN /\ up_last = forUp
           /\ own.k = lastRecv.k
           /\ own.k = SingleKind[lastRecv.g]
           /\ btn_up_state # Pressed /\ btn_down_state # Pressed
           /\ other.k # "LongPressed"

\* A Down dispatched while Up's latest state is an older Click.
C23_Witness ==
    /\ lastRecv.g = "Down"
    /\ btn_up_state.k = "Click"

C23_WitnessLong ==
    /\ lastRecv.g \in {"UpLong", "DownLong"}

\* A step that handed the gesture btns to handle_input.
Handled(btns) == nGestures' = nGestures + 1 /\ lastInput' = btns

\* A Down from v to w (quarters): a quarter less whenever that stays within
\* the range, and 10 only from the bottom of the range.
DownWithinRange(v, w) ==
    /\ v - 1 >= 0 => w = v - 1
    /\ (w = OCP_MAX /\ w # v - 1) => v = 0

\* C24: on the UVP and OCP pages a Down lowers the threshold by exactly 0.25
\* whenever the result stays within the range, and wraps to 10 only from the
\* bottom of the range.
C24_DownStepsByQuarter ==
    [][Handled("Down") =>
          /\ page = PageUVP => DownWithinRange(uvp, uvp')
          /\ page = PageOCP => DownWithinRange(ocp, ocp')]_vars

\* ---------------------------------------------------------------- C25
\* C25: on a Setting page Up moves to the next item and Down to the previous
\* one in the cyclic order Voltage, UVP, OCP, About; an Up followed by a Down,
\* and a Down followed by an Up, is back on the same item; four Ups in a row
\* are back on the item they started from; every step publishes the new page.
CyclicNext == [Voltage |-> "UVP", UVP |-> "OCP", OCP |-> "About", About |-> "Voltage"]
CyclicPrev == [Voltage |-> "About", UVP |-> "Voltage", OCP |-> "UVP", About |-> "OCP"]
RunOf(btns, k, n) == \A i \in k..(k + n - 1) : trail[i].btns = btns

C25_SettingCycle ==
    /\ \A k \in 1..Len(trail) :
          trail[k].from.p = "Setting" =>
             /\ trail[k].btns = "Up" =>
                   trail[k].to = PageSetting(CyclicNext[trail[k].from.a])
             /\ trail[k].btns = "Down" =>
                   trail[k].to = PageSetting(CyclicPrev[trail[k].from.a])
             /\ trail[k].pub # <<>>
             /\ trail[k].pub[Len(trail[k].pub)] = trail[k].to
             /\ trail[k].to # trail[k].from
    /\ \A k \in 1..(Len(trail) - 1) :
          (trail[k].from.p = "Setting" /\ trail[k].btns # trail[k + 1].btns) =>
              trail[k + 1].to = trail[k].from
    /\ \A k \in 1..(Len(trail) - 3) :
          (trail[k].from.p = "Setting" /\ RunOf("Up", k, 4)) =>
              trail[k + 3].to = trail[k].from

C25_Witness ==
    /\ Len(trail) >= 4
    /\ RunOf("Up", 1, 4)
    /\ trail[1].from = PageSetting("OCP")
    /\ page = PageSetting("OCP")
C25_WitnessBack ==
    /\ Len(trail) = 2
    /\ trail[1].btns = "Down" /\ trail[2].btns = "Up"
    /\ trail[1].from = PageSetting("Voltage")
    /\ trail[1].to = PageSetting("About")
    /\ page = PageSetting("Voltage")

\* ---------------------------------------------------------------- C26
\* C26: on the About page only UpAndDown and UpAndDownLong change the page,
\* both to Setting(About); a double-click only toggles the direction; Up,
\* Down, UpLong and DownLong leave the page and every setting as they are and
\* publish nothing.
Settings == <<backlight, display_direction, ocp, uvp, pdo, output, selected_voltage>>
C26_AboutFrame ==
    [][page = PageAbout =>
          /\ (Handled("UpAndDown") \/ Handled("UpAndDownLong")) =>
                page' = PageSetting("About")
          /\ (Handled("UpDbk") \/ Handled("DownDbk")) =>
                /\ page' = page
                /\ display_direction' = toggle(display_direction)
                /\ UNCHANGED <<backlight, ocp, uvp, pdo, output, selected_voltage>>
          /\ (\E btns \in {"Up", "Down", "UpLong", "DownLong"} : Handled(btns)) =>
                /\ page' = page
                /\ UNCHANGED Settings
                /\ UNCHANGED topics]_vars

\* ---------------------------------------------------------------- C27
\* C27: on the Voltage(sel) page UpAndDown and UpAndDownLong set the target
\* PDO to exactly sel and publish sel once on the PDO topic, the page going to
\* Setting(UVP) and to Monitor respectively; Up and Down change only the
\* page's selection, never the target PDO nor the PDO topic.
OneMore(q, q2, m) ==
    /\ Len(q) < 2 => q2 = Append(q, m)
    /\ Len(q) = 2 => q2 = <<q[2], m>>
Committed(pg) ==
    /\ page' = pg
    /\ pdo' = page.a
    /\ OneMore(topics["pdo"], topics'["pdo"], page.a)
    /\ OneMore(unread["pdo_sub"], unread'["pdo_sub"], page.a)
C27_VoltageCommit ==
    [][page.p = "Voltage" =>
          /\ Handled("UpAndDown") => Committed(PageSetting("UVP"))
          /\ Handled("UpAndDownLong") => Committed(PageMonitor)
          /\ (Handled("Up") \/ Handled("Down")) =>
                /\ page'.p = "Voltage"
                /\ UNCHANGED <<pdo, backlight, display_direction, ocp, uvp,
                               output, selected_voltage>>
                /\ \A name \in DOMAIN topics \ {"page"} :
                      topics'[name] = topics[name]
                /\ unread'["pdo_sub"] = unread["pdo_sub"]]_vars

C27_Witness ==
    /\ lastInput = "UpAndDownLong"
    /\ page = PageMonitor
    /\ pdo = "_12v"
    /\ selected_voltage = "_9v"
    /\ topics["pdo"] = <<"_9v", "_12v">>

\* ---------------------------------------------------------------- C28
\* C28: when a secondary numeric field (target volts, limit amps, OCP amps)
\* is updated with a changed value and no forced redraw, the glyph columns
\* re-blitted are exactly those whose character differs from the value
\* rendered before, as for the primary fields.
StatusColumnBlitted(field, idx) ==
    \E i \in 1..Len(ops') :
        /\ ops'[i].op = "write_area"
        /\ ops'[i].x = MONITOR_SECONDARY_X2 + idx * StatusGlyphWidth
        /\ ops'[i].y = SecondaryY[field]
C28_SecondaryDiff ==
    [][\A field \in SecondaryFields :
          (/\ status_info'[field] # status_info[field]
           /\ ~disp_force_render
           /\ ~panicked') =>
              \A idx \in 0..(StatusLen - 1) :
                  StatusColumnBlitted(field, idx) <=>
                      CharAt(ryu_format(status_info'[field]), idx)
                          # CharAt(ryu_format(status_info[field]), idx)]_vars

\* ---------------------------------------------------------------- C21
\* C21: once the display is initialised, a bus error during a renderer tick
\* (the orientation command of a direction change, the panel clear, a glyph
\* blit) does not panic.
TickMessages == {"direction", "page", "output"}
C21_BusErrorNoPanic ==
    (\E i \in 1..Len(ops) : ops[i].by \in TickMessages /\ ~ops[i].ok) =>
        ~panicked

\* ---------------------------------------------------------------- C29
\* C29: a renderer tick that takes a direction message issues the orientation
\* command before any pixel is written, then clears the panel and redraws
\* every glyph cell of the current page whatever was shown before, and the
\* force-redraw flag is false again when the tick has ended.
Segment(by) == SelectSeq(ops, LAMBDA o : o.by = by)
Padded(str, idx) == IF CharAt(str, idx) = "None" THEN "0" ELSE CharAt(str, idx)
DrawnIn(seg, x, y, ch) ==
    \E i \in 1..Len(seg) :
        seg[i].op = "write_area" /\ seg[i].x = x /\ seg[i].y = y /\ seg[i].ch = ch
\* The output flag's cells show the flag (no output message in the tick).
OutputShownIn(seg) ==
    \A idx \in 0..2 :
        DrawnIn(seg, MONITOR_SECONDARY_X2 + idx * StatusGlyphWidth,
                MONITOR_SECONDARY_Y5,
                (IF disp_output THEN <<"O", "N", " ">>
                                ELSE <<"O", "F", "F">>)[idx + 1])
\* Every cell of the Monitor page's fields is drawn, the numeric ones with
\* the stored value.
MonitorCellsIn(seg) ==
    /\ \A field \in PrimaryFields : \A idx \in 0..4 :
          DrawnIn(seg, MONITOR_PRIMARY_X + idx * PrimaryGlyphWidth,
                  PrimaryY[field], Padded(ryu_format(power_info[field]), idx))
    /\ \A field \in SecondaryFields : \A idx \in 0..3 :
          DrawnIn(seg, MONITOR_SECONDARY_X2 + idx * StatusGlyphWidth,
                  SecondaryY[field], Padded(ryu_format(status_info[field]), idx))
    /\ \A idx \in 0..2 :
          \E ch \in {"O", "N", "F", " "} :
              DrawnIn(seg, MONITOR_SECONDARY_X2 + idx * StatusGlyphWidth,
                      MONITOR_SECONDARY_Y5, ch)
    /\ DrawnIn(seg, MONITOR_PRIMARY_UINT_X, MONITOR_PRIMARY_UINT_Y1, "V")
    /\ DrawnIn(seg, MONITOR_PRIMARY_UINT_X, MONITOR_PRIMARY_UINT_Y2, "A")
    /\ DrawnIn(seg, MONITOR_PRIMARY_UINT_X, MONITOR_PRIMARY_UINT_Y3, "W")
DirectionTaken == Segment("direction") # <<>> /\ ~panicked

C29_DirectionRedraw ==
    DirectionTaken =>
        LET seg == Segment("direction")
        IN  /\ lastTick.direction # <<>>
            /\ seg[1].op = "set_orientation"
            /\ seg[1].ch = (IF lastTick.direction[1] = "Normal"
                            THEN "Landscape" ELSE "LandscapeSwapped")
            /\ ops[1] = seg[1]
            /\ Len(seg) >= 3
            /\ seg[2].op = "fill_color"
            /\ \A i \in 3..Len(seg) : seg[i].op = "write_area"
            /\ lastTick.from = PageMonitor =>
                  MonitorCellsIn(SubSeq(seg, 3, Len(seg)))
            /\ (lastTick.from = PageMonitor /\ lastTick.output = <<>>) =>
                  OutputShownIn(SubSeq(seg, 3, Len(seg)))
            /\ ~disp_force_render

C29_Witness ==
    /\ DirectionTaken
    /\ lastTick.from = PageMonitor
    /\ lastTick.direction = <<"Reversed">>
    /\ lastTick.page = <<>> /\ lastTick.output = <<>>
    /\ status_info.target_volts = 5000
    /\ disp_direction = "Reversed"
C29_WitnessSetting ==
    /\ DirectionTaken
    /\ lastTick.from = PageSetting("UVP")
    /\ Len(Segment("direction")) = 3

\* ---------------------------------------------------------------- C30
\* C30: a renderer tick that takes a page message first clears the panel to
\* the background, then draws the new page's static labels, then, for
\* Monitor, draws each dynamic field (volts, amps, watts, target volts, limit
\* amps, OCP amps, output) exactly once and in full: clear, labels, fields,
\* in this order.
DynamicLen == [volts |-> 5, amps |-> 5, watts |-> 5, target_volts |-> 4,
               limit_amps |-> 4, ocp_amps |-> 4, output |-> 3]
DynamicX == [volts |-> MONITOR_PRIMARY_X, amps |-> MONITOR_PRIMARY_X,
             watts |-> MONITOR_PRIMARY_X,
             target_volts |-> MONITOR_SECONDARY_X2,
             limit_amps |-> MONITOR_SECONDARY_X2,
             ocp_amps |-> MONITOR_SECONDARY_X2, output |-> MONITOR_SECONDARY_X2]
DynamicWidth == [volts |-> PrimaryGlyphWidth, amps |-> PrimaryGlyphWidth,
                 watts |-> PrimaryGlyphWidth, target_volts |-> StatusGlyphWidth,
                 limit_amps |-> StatusGlyphWidth, ocp_amps |-> StatusGlyphWidth,
                 output |-> StatusGlyphWidth]
IsLabel(o) == o.op = "write_area" /\ o.of \notin DOMAIN DynamicLen
OnceInFull(seg, field) ==
    /\ Cardinality({i \in 1..Len(seg) : seg[i].of = field}) = DynamicLen[field]
    /\ \A idx \in 0..(DynamicLen[field] - 1) :
          \E i \in 1..Len(seg) :
              /\ seg[i].of = field
              /\ seg[i].x = DynamicX[field] + idx * DynamicWidth[field]
PageTaken == Segment("page") # <<>> /\ ~panicked

C30_PageRedraw ==
    PageTaken =>
        LET seg == Segment("page")
        IN  /\ lastTick.page # <<>>
            /\ seg[1].op = "fill_color" /\ seg[1].ch = "background"
            /\ \A i \in 2..Len(seg) : seg[i].op = "write_area"
            /\ \E i \in 2..Len(seg) : IsLabel(seg[i])
            /\ \A i, j \in 2..Len(seg) :
                  (IsLabel(seg[i]) /\ ~IsLabel(seg[j])) => i < j
            /\ lastTick.page[1] = PageMonitor =>
                  /\ \A field \in DOMAIN DynamicLen : OnceInFull(seg, field)
                  /\ MonitorCellsIn(SubSeq(seg, 2, Len(seg)))
            /\ lastTick.page[1] # PageMonitor =>
                  \A i \in 2..Len(seg) : IsLabel(seg[i])

C30_Witness ==
    /\ PageTaken
    /\ lastTick.from = PageSetting("UVP")
    /\ lastTick.page = <<PageMonitor>>
    /\ lastTick.direction = <<>>
    /\ status_info.ocp_amps = 5000
    /\ disp_page = PageMonitor
    /\ Len(Segment("page")) = 46

\* ---------------------------------------------------------------- C31
\* C31: the Setting menu (N = 4) and the Voltage menu (N = 6) show, for every
\* selection, min(N, 5) rows with the entries (offset + i + N - 2) mod N, all
\* distinct; the selected entry is in row 2 and is the only highlighted row.
MenuOf(of) == IF of = "update_setting_layout" THEN SETTING_ITEMS ELSE VOLTAGE_ITEMS
IndexIn(items, x) == CHOOSE k \in 0..(Len(items) - 1) : items[k + 1] = x
Highlighted(r) == RowBgColor(r) = "COLOR_PRIMARY"
ItemsShown == [k \in 1..Len(ops) |-> RowItem(ops[k])]
C31_MenuWindow ==
    ops # <<>> =>
        LET items == MenuOf(RowOf(ops[1]))
            n == Len(items)
            offset == IndexIn(items, RowArg(ops[1]))
        IN  /\ Len(ops) = (IF n < 5 THEN n ELSE 5)
            /\ \A k \in 1..Len(ops) :
                  /\ RowIndex(ops[k]) = k - 1
                  /\ RowItem(ops[k]) = items[((offset + (k - 1) + n - 2) % n) + 1]
                  /\ Highlighted(ops[k]) <=> k - 1 = 2
            /\ \A j, k \in 1..Len(ops) :
                  j # k => RowItem(ops[j]) # RowItem(ops[k])
            /\ RowItem(ops[3]) = RowArg(ops[1])

C31_Witness ==
    /\ Len(ops) = 5
    /\ RowArg(ops[1]) = "_20v"
    /\ ItemsShown = <<"_15v", "_18v", "_20v", "_5v", "_9v">>
    /\ RowColor(ops[4]) = "COLOR_TEXT" /\ RowColor(ops[5]) = "COLOR_TEXT_DISABLED"
C31_WitnessSetting ==
    /\ Len(ops) = 4
    /\ RowArg(ops[1]) = "Voltage"
    /\ ItemsShown = <<"OCP", "About", "Voltage", "UVP">>


\* ---------------------------------------------------------------- C32
\* The bits of a byte, most significant first, by repeated halving.
RECURSIVE BitsMsbFirst(_, _)
BitsMsbFirst(byte, n) ==
    IF n = 0 THEN <<>>
    ELSE BitsMsbFirst(byte \div 2, n - 1) \o <<byte % 2>>

\* The colour of pixel p (from 0) of the last write_area call.
PixelColour(p) ==
    IF BitsMsbFirst(drv_call.data[(p \div 8) + 1], 8)[(p % 8) + 1] = 1
    THEN drv_call.color ELSE drv_call.bg_color

\* C32: a write_area call that succeeds ends with the memory-write command
\* followed by one single data write of exactly 16 bytes per bitmap byte: the
\* bitmap's bits, most significant first, each as the two bytes of one pixel,
\* high byte first, of the foreground colour for a 1 and of the background
\* colour for a 0.
C32_BitmapExpansion ==
    (drv_call.op = "write_area" /\ drv_result = "Ok") =>
        LET n == Len(bus)
            px == bus[n].w.bytes
        IN /\ n = 6
           /\ bus[n - 1].w = Write(FALSE, <<RAMWR>>)
           /\ bus[n].w.dc
           /\ \A i \in 1..(n - 1) : bus[i].w.dc => Len(bus[i].w.bytes) = 4
           /\ Len(px) = 16 * drv_call.len
           /\ \A p \in 0..(8 * drv_call.len - 1) :
                /\ px[2 * p + 1] = PixelColour(p) \div 256
                /\ px[2 * p + 2] = PixelColour(p) % 256

\* A bitmap of bytes 11000001 drawn in a colour whose two bytes differ, on a
\* background that is not zero.
C32_Witness ==
    /\ drv_call.op = "write_area"
    /\ drv_result = "Ok"
    /\ drv_call.len = 48
    /\ drv_call.data[1] = 193
    /\ drv_call.color = 2016
    /\ drv_call.bg_color = 31
    /\ SubSeq(bus[6].w.bytes, 1, 6) = <<7, 224, 7, 224, 0, 31>>


\* ---------------------------------------------------------------- C33
\* Which writes of a call carry an instruction (TRUE) and which parameters
\* or pixels (FALSE), from the operation's definition in the data sheet's
\* terms: an instruction is one byte, what follows it until the next
\* instruction is its data.
RECURSIVE CommandKinds(_)
CommandKinds(commands) ==
    IF commands = <<>> THEN <<>>
    ELSE <<TRUE>> \o (IF Head(commands)[2] = <<>> THEN <<>> ELSE <<FALSE>>)
         \o CommandKinds(Tail(commands))
WindowKinds == <<TRUE, FALSE, TRUE, FALSE>>
KindsOf(call) ==
    CASE call.op = "init" -> CommandKinds(InitCommands) \o <<TRUE, FALSE>>
      [] call.op = "set_orientation" -> <<TRUE, FALSE>>
      [] call.op = "set_address_window" -> WindowKinds
      [] call.op = "fill_color" ->
            WindowKinds \o <<TRUE>> \o [i \in 1..(config.height \div 2) |-> FALSE]
      [] call.op = "write_area" -> WindowKinds \o <<TRUE, FALSE>>
      [] OTHER -> <<>>

\* C33: in every driver operation each write of an instruction byte is made
\* with D/C low and each write of parameter or pixel bytes with D/C high,
\* whether the operation runs to its end or stops at a failed write.
C33_CommandLowDataHigh ==
    /\ Len(bus) <= Len(KindsOf(drv_call))
    /\ \A i \in 1..Len(bus) :
        /\ bus[i].w.dc = ~KindsOf(drv_call)[i]
        /\ KindsOf(drv_call)[i] => Len(bus[i].w.bytes) = 1

\* A whole fill_color: 91 writes, the fifth the memory-write command.
C33_Witness ==
    /\ drv_call.op = "fill_color" /\ drv_result = "Ok"
    /\ Len(bus) = 91
    /\ bus[5].w = Write(FALSE, <<RAMWR>>)
    /\ bus[91].w.dc /\ Len(bus[91].w.bytes) = 1440

\* set_orientation, and a set_address_window stopped at its last write.
C33_WitnessOrientation ==
    /\ drv_call.op = "set_orientation" /\ drv_result = "Ok"
    /\ bus = <<[w |-> Write(FALSE, <<MADCTL>>), ok |-> TRUE],
               [w |-> Write(TRUE, <<LandscapeSwapped>>), ok |-> TRUE]>>
    /\ drv_orientation = LandscapeSwapped
C33_WitnessWindow ==
    /\ drv_call.op = "set_address_window" /\ drv_result = "Comm"
    /\ Len(bus) = 4 /\ bus[4].w.dc /\ dc_pin


\* ---------------------------------------------------------------- C34
\* The coordinator takes an event of button b in this step.
Took(b) == Len(chan'[b]) < Len(chan[b])
CompoundKind == [UpAndDown |-> "Click", UpAndDownLong |-> "LongPressed"]

\* C34: an event the coordinator takes leads to no handle_input call or to
\* one; with none no setting changes; and a two-button gesture is dispatched
\* only by an event that completes it: a Click (for UpAndDown) or a
\* LongPressed (for UpAndDownLong) that is new to its logical button, the
\* other button's state being of the same kind and less than 100 ms from it.
C34_OneDispatchPerEvent ==
    [][\A b \in Buttons : Took(b) =>
        LET s == Head(chan[b])
            toUp == DrivesUp(b, direction)
            own == IF toUp THEN btn_up_state ELSE btn_down_state
            other == IF toUp THEN btn_down_state ELSE btn_up_state
        IN /\ lastRecv'.n <= 1
           /\ lastRecv'.n = 0 => lastRecv'.g = NoGesture /\ UNCHANGED setVars
           /\ lastRecv'.n = 1 => lastRecv'.g # NoGesture
           /\ lastRecv'.g \in DOMAIN CompoundKind =>
                /\ s.k = CompoundKind[lastRecv'.g]
                /\ s # own
                /\ other.k = s.k
                /\ instant_diff(s.t, other.t) < MAX_SIMULTANEOUS_PRESS_DELAY
                /\ other = (IF toUp THEN btn_down_state' ELSE btn_up_state')
    ]_vars

\* UpAndDown dispatched once by the second of two Clicks, and the event after
\* it (a Released of a bounce, the pair of Clicks still stored on one side)
\* dispatching nothing.
C34_Witness ==
    /\ lastRecv.g = "UpAndDown" /\ lastRecv.n = 1
    /\ btn_up_state.k = "Click" /\ btn_down_state.k = "Click"
C34_WitnessAfter ==
    /\ clickDisp["B"].g = "UpAndDown"
    /\ lastRecv = [b |-> "A", k |-> "Released", g |-> NoGesture, n |-> 0]
    /\ edges["A"] = 4
    /\ "Click" \in {btn_up_state.k, btn_down_state.k}
C34_WitnessLong ==
    /\ lastRecv.g = "UpAndDownLong" /\ lastRecv.n = 1

\* ---------------------------------------------------------------- C35
\* A task suspended in lock().await, and the mutex it waits for.
CtlWaits == IF ctl_pc = "page" THEN "page"
            ELSE IF ctl_pc = "setting" THEN LockPlan(page, ctl_job).lock
            ELSE "none"
MainWaits == IF main_pc = "top" THEN "display"
             ELSE IF main_pc = "run" /\ LayoutNeedsTable THEN "available"
             ELSE IF main_pc = "run" /\ loop_pc = "amps"
                     /\ owner["ocp"] # "main" THEN "ocp"
             ELSE "none"
\* The mutexes both tasks lock.
ContendedMutexes == {"ocp", "available"}
Blocked(task, m) == m # "none" /\ owner[m] \notin {"free", task}

\* C35: the coordinator and main's loop never wait for each other's locks at
\* once, and every lock acquisition of either is made in the end: the
\* coordinator's while it holds the page guard, main's whatever the
\* coordinator holds, though main keeps the OCP guard from the current
\* reading to the end of its iteration.
C35_LocksGranted ==
    /\ [](~(Blocked("ctl", CtlWaits) /\ Blocked("main", MainWaits)))
    /\ \A m \in ContendedMutexes :
        /\ (CtlWaits = m) ~> (owner[m] = "ctl")
        /\ (MainWaits = m) ~> (owner[m] = "main" \/ MainWaits # m)
    /\ (ctl_pc # "idle") ~> (ctl_pc = "idle" /\ unlock_all(owner, "ctl") = owner)
    /\ (main_pc = "top") ~> (main_pc = "run" /\ owner["display"] = "main")

\* The coordinator, on the OCP page with the page guard, waits for the OCP
\* guard main holds; and main waits for it while the coordinator holds it.
C35_Witness ==
    /\ ctl_pc = "setting" /\ page = PageOCP /\ owner["page"] = "ctl"
    /\ CtlWaits = "ocp" /\ owner["ocp"] = "main" /\ loop_pc = "pdo"
C35_WitnessMain ==
    /\ MainWaits = "ocp" /\ owner["ocp"] = "ctl" /\ owner["page"] = "ctl"
C35_WitnessTable ==
    /\ CtlWaits = "available" /\ owner["available"] = "main"

\* The character render_monitor draws in a column for a formatted value.
ShownChar(str, idx) == IF CharAt(str, idx) = "None" THEN "0" ELSE CharAt(str, idx)

\* C36: on the Monitor page, whatever readings, page changes and direction
\* changes came before, each of the five columns of a primary field shows the
\* character of the stored (last rendered) value at that column, '0' where
\* the formatted value is shorter.
C36_PanelShowsStored ==
    disp_page.p = "Monitor" =>
        \A field \in PrimaryFields : \A idx \in 0..4 :
            panel[field][idx + 1]
                = ShownChar(ryu_format(power_info[field]), idx)

\* A reading was shown by difference (one column redrawn) after the page
\* had been left and entered again.
C36_Witness ==
    /\ disp_page.p = "Monitor"
    /\ nGestures >= 2
    /\ lastRender.field = "volts" /\ ~lastRender.force
    /\ lastRender.prev = ryu_format(12340)
    /\ lastRender.curr = ryu_format(12350)
    /\ Len(blits) = 1
    /\ panel["volts"] = <<"1", "2", ".", "3", "5">>

\* A value shorter than five characters, shown after the direction changed.
C36_WitnessShort ==
    /\ disp_page.p = "Monitor"
    /\ disp_direction = "Reversed"
    /\ power_info["watts"] = 5000
    /\ panel["watts"] = <<"5", ".", "0", "0", "0">>
    /\ power_info["volts"] = ERR_READING
    /\ panel["volts"] = <<"9", "9", "9", "9", "9">>

\* ---------------------------------------------------------------- C37
\* The end of an iteration of main's loop: the next step is the output
\* controller's, and neither it nor the renderer has an output message left
\* to read.
IterationEnd == loop_pc = "output_controller"
OutputSettled ==
    unread["ctrl_output_sub"] = <<>> /\ unread["output_sub"] = <<>>

\* C37: at the end of an iteration of main's loop with no output message
\* pending, the level of the actuator pin equals the output-enable flag and
\* the value the renderer holds, whatever toggles and over-current trips came
\* before.
C37_ActuatorMatchesFlag ==
    (IterationEnd /\ OutputSettled) =>
        (ctrl_pin = output /\ disp_output = output)

\* ---------------------------------------------------------------- C38
\* C38: a dispatched gesture changes a setting only on that setting's page
\* and by that setting's gestures: the backlight only on Monitor, the output
\* flag only by UpAndDownLong on Monitor, UVP only by Up / Down on the UVP
\* page, OCP only by Up / Down on the OCP page, the target PDO only by
\* UpAndDown / UpAndDownLong on the Voltage page; a double-click, on any page,
\* toggles the Direction once and leaves the page and every other setting.
C38_OwnPageOnly ==
    [][(\E btns \in BtnsState : Handled(btns)) =>
          /\ backlight' # backlight => page.p = "Monitor"
          /\ output' # output =>
                page.p = "Monitor" /\ Handled("UpAndDownLong")
          /\ uvp' # uvp =>
                page = PageUVP /\ (Handled("Up") \/ Handled("Down"))
          /\ ocp' # ocp =>
                page = PageOCP /\ (Handled("Up") \/ Handled("Down"))
          /\ pdo' # pdo =>
                /\ page.p = "Voltage"
                /\ Handled("UpAndDown") \/ Handled("UpAndDownLong")
          /\ display_direction' # display_direction =>
                Handled("UpDbk") \/ Handled("DownDbk")
          /\ (Handled("UpDbk") \/ Handled("DownDbk")) =>
                /\ display_direction' = toggle(display_direction)
                /\ topics'["direction"]
                      = publish_immediate(topics["direction"],
                                          display_direction')
                /\ page' = page
                /\ UNCHANGED <<backlight, ocp, uvp, pdo, output,
                               selected_voltage>>]_vars

\* A double-click on the OCP page: the Direction is reversed and published,
\* the page and the settings are as they were.
C38_Witness ==
    /\ page = PageOCP
    /\ lastInput \in {"UpDbk", "DownDbk"}
    /\ display_direction = "Reversed"
    /\ topics["direction"] = <<"Reversed">>
    /\ ocp = 0 /\ uvp = 0 /\ backlight = BACKLIGHT_INIT
    /\ ~output /\ pdo = "unset"

\* The OCP threshold raised by an Up on the OCP page.
C38_WitnessOcp ==
    /\ page = PageOCP /\ lastInput = "Up"
    /\ ocp = 1 /\ uvp = 0

\* The target PDO committed from the Voltage page, the output switched on
\* from Monitor.
C38_WitnessCommit ==
    /\ page = PageMonitor /\ lastInput = "UpAndDownLong"
    /\ pdo = "_5v" /\ output
    /\ ocp = 0 /\ uvp = 0

\* A double-click on the Monitor page and one on the About page.
C38_WitnessTwice ==
    /\ page = PageAbout /\ lastInput \in {"UpDbk", "DownDbk"}
    /\ display_direction = "Normal"
    /\ topics["direction"] = <<"Reversed", "Normal">>

\* ---------------------------------------------------------------- C39
\* Both buttons are up, no event is queued, and no press is outstanding that
\* a later poll could still report.
InputIdle ==
    \A b \in Buttons :
        ~pin[b] /\ chan[b] = <<>> /\ last_press_time[b] = InstantMIN
Holding == {"Pressed", "LongPressed"}

\* C39: once both buttons are released, the polls have run and every queued
\* event has been taken, neither logical state the coordinator stores is
\* Pressed or LongPressed (so nothing keeps the next Click from being
\* dispatched).
C39_NeverStuck ==
    InputIdle =>
        (btn_up_state.k \notin Holding /\ btn_down_state.k \notin Holding)

\* ---------------------------------------------------------------- C40
\* Button b is released in this step.
ReleasedNow(b) == pin[b] /\ ~pin'[b]

\* C40: a release sends DoubleClick only when an earlier release of the same
\* button sent Click or DoubleClick less than 300 ms before and no
\* LongPressed was sent for the button in between; so the first release that
\* sends Click or DoubleClick after start-up, and the first after a
\* LongPressed, sends Click.
C40_DoubleClickOnlyAfterClick ==
    [][\A b \in Buttons :
          (ReleasedNow(b) /\ prevRel'[b].emit = "DoubleClick") =>
              /\ qualRel[b].seen
              /\ qualRel[b].emit \in {"Click", "DoubleClick"}
              /\ now - qualRel[b].at < DOUBLE_CLICK_TIMEOUT
              /\ ~qualRel[b].long]_vars

\* A Click less than 300 ms after the Click before it, a LongPressed having
\* been sent in between.
C40_Witness ==
    /\ qualRel["A"].emit = "Click"
    /\ ~qualRel["A"].first
    /\ qualRel["A"].gap < DOUBLE_CLICK_TIMEOUT
    /\ qualRel["A"].afterLong

\* A DoubleClick after a Click, and a first Click.
C40_WitnessDouble ==
    /\ qualRel["A"].emit = "DoubleClick"
    /\ qualRel["A"].gap < DOUBLE_CLICK_TIMEOUT
    /\ ~qualRel["A"].afterLong
C40_WitnessFirst ==
    /\ qualRel["A"].emit = "Click" /\ qualRel["A"].first
    /\ qualRel["A"].at - BootTime < DOUBLE_CLICK_TIMEOUT

====
